---- MODULE Spec2Model ----
(***************************************************************************)
(* A model of the content-addressable object core of code-storage-server:  *)
(* crates/core/src/hash.rs (digest engine), crates/core/src/object.rs      *)
(* (Blob, Tree, Commit and their lazily cached digests),                   *)
(* crates/core/src/compression.rs (zlib codec, bounded decompression) and  *)
(* the value object RepositoryName of crates/repository.                   *)
(*                                                                         *)
(* Rust Strings and Vec<u8> are sequences of bytes (0..255); a String is   *)
(* its UTF-8 bytes, so as_bytes / into_bytes change nothing.  Option<T> is *)
(* a sequence of length at most one: None is <<>>, Some(v) is <<v>>.       *)
(***************************************************************************)
EXTENDS Integers, Sequences, FiniteSets, TLC

VARIABLES obj, last, call

vars == <<obj, last, call>>

(***************************************************************************)
(* Bounds of the model.                                                    *)
(***************************************************************************)
\* the longest entry list a Tree is grown to
MaxEntries == 3

(***************************************************************************)
(* Option                                                                  *)
(***************************************************************************)
None == <<>>

Some(v) == <<v>>

is_none(o) == o = <<>>

unwrap(o) == o[1]

(***************************************************************************)
(* Text: the string literals of the source, as ASCII bytes.                *)
(***************************************************************************)
NUL == <<0>>

STR_blob == <<98, 108, 111, 98, 32>>

STR_tree == <<116, 114, 101, 101, 32>>

STR_commit == <<99, 111, 109, 109, 105, 116, 32>>

STR_parent == <<10, 112, 97, 114, 101, 110, 116, 32>>

STR_author == <<10, 97, 117, 116, 104, 111, 114, 32>>

STR_lt == <<32, 60>>

STR_date == <<62, 10, 100, 97, 116, 101, 32>>

STR_blank == <<10, 10>>

MODE_FILE == <<49, 48, 48, 54, 52, 52>>

MODE_EXEC == <<49, 48, 48, 55, 53, 53>>

MODE_DIR == <<48, 52, 48, 48, 48, 48>>

\* format!("{}", n) of a usize: its decimal digits, no padding
RECURSIVE ToDecimal(_)
ToDecimal(n) ==
  IF n < 10 THEN <<48 + n>>
  ELSE ToDecimal(n \div 10) \o <<48 + (n % 10)>>

(***************************************************************************)
(* hash.rs: the digest engine.  sha2::Sha256 is an external crate; it is   *)
(* represented by a deterministic 32-byte digest of the whole input (two   *)
(* residues of a tree-shaped mix of the bytes, the length, and bytes mixed *)
(* from them) that has no collision on the inputs this model reaches.      *)
(* hex::encode is modelled as it works: two lowercase hexadecimal          *)
(* characters per byte.                                                    *)
(***************************************************************************)
HASH_LENGTH == 32

HASH_HEX_LENGTH == 64

RECURSIVE Mix(_, _, _, _, _, _)
Mix(data, lo, hi, ma, mb, modulus) ==
  IF lo > hi THEN 1
  ELSE IF lo = hi THEN ((data[lo] + 1) * ma) % modulus
  ELSE LET mid == (lo + hi) \div 2
       IN  (Mix(data, lo, mid, ma, mb, modulus) * ma
            + Mix(data, mid + 1, hi, ma, mb, modulus) * mb + hi - lo) % modulus

Sha256(data) ==
  LET a == Mix(data, 1, Len(data), 509, 499, 1048573)
      b == Mix(data, 1, Len(data), 251, 487, 1048559)
  IN  [i \in 1..HASH_LENGTH |->
         CASE i = 1 -> a % 256
           [] i = 2 -> (a \div 256) % 256
           [] i = 3 -> a \div 65536
           [] i = 4 -> b % 256
           [] i = 5 -> (b \div 256) % 256
           [] i = 6 -> b \div 65536
           [] i = 7 -> Len(data) % 256
           [] OTHER -> (a + i * (b % 65536)) % 256]

HexChars == <<48, 49, 50, 51, 52, 53, 54, 55, 56, 57, 97, 98, 99, 100, 101, 102>>

\* hex::encode_upper in place of hex::encode
hex_encode_upper(bytes) ==
  [i \in 1..(2 * Len(bytes)) |->
     LET b == bytes[(i + 1) \div 2]
         c == HexChars[(IF i % 2 = 1 THEN b \div 16 ELSE b % 16) + 1]
     IN  IF c >= 97 THEN c - 32 ELSE c]

hex_encode(bytes) ==
  [i \in 1..(2 * Len(bytes)) |->
     LET b == bytes[(i + 1) \div 2]
     IN  HexChars[(IF i % 2 = 1 THEN b \div 16 ELSE b % 16) + 1]]

\* Hasher::hash_bytes
hash_bytes(data) == hex_encode(Sha256(data))

(***************************************************************************)
(* SHA-256 itself (FIPS 180-4), which Sha256 above stands for: used where  *)
(* the value of a digest matters and not only which inputs share one.  A   *)
(* 32-bit word is the function of its bits, bit 0 the least significant,   *)
(* since the integers of the checker end at 2^31 - 1; a word is written as *)
(* its two 16-bit halves.                                                  *)
(***************************************************************************)
Word(hi, lo) ==
  [i \in 0..31 |-> IF i < 16 THEN (lo \div (2 ^ i)) % 2
                   ELSE (hi \div (2 ^ (i - 16))) % 2]

\* the number made of the n bits of w from bit from
RECURSIVE HalfValue(_, _, _)
HalfValue(w, from, n) ==
  IF n = 0 THEN 0 ELSE w[from] + 2 * HalfValue(w, from + 1, n - 1)

RECURSIVE HalfSum(_, _)
HalfSum(ws, from) ==
  IF ws = <<>> THEN 0 ELSE HalfValue(Head(ws), from, 16) + HalfSum(Tail(ws), from)

\* the sum of the words of ws modulo 2^32 (wrapping_add)
WrappingSum(ws) ==
  LET lo == HalfSum(ws, 0)
      hi == HalfSum(ws, 16) + (lo \div 65536)
  IN  Word(hi % 65536, lo % 65536)

\* the initial hash value, as halves
Sha256_H0 ==
  <<
    <<27145, 58983>>, <<47975, 44677>>, <<15470, 62322>>, <<42319, 62778>>,
    <<20750, 21119>>, <<39685, 26764>>, <<8067, 55723>>, <<23520, 52505>>>>

\* the round constants, as halves
Sha256_K ==
  <<
    <<17034, 12184>>, <<28983, 17553>>, <<46528, 64463>>, <<59829, 56229>>,
    <<14678, 49755>>, <<23025, 4593>>, <<37439, 33444>>, <<43804, 24277>>,
    <<55303, 43672>>, <<4739, 23297>>, <<9265, 34238>>, <<21772, 32195>>,
    <<29374, 23924>>, <<32990, 45566>>, <<39900, 1703>>, <<49563, 61812>>,
    <<58523, 27073>>, <<61374, 18310>>, <<4033, 40390>>, <<9228, 41420>>,
    <<11753, 11375>>, <<19060, 33962>>, <<23728, 43484>>, <<30457, 35034>>,
    <<38974, 20818>>, <<43057, 50797>>, <<45059, 10184>>, <<48985, 32711>>,
    <<50912, 3059>>, <<54695, 37191>>, <<1738, 25425>>, <<5161, 10599>>,
    <<10167, 2693>>, <<11803, 8504>>, <<19756, 28156>>, <<21304, 3347>>,
    <<25866, 29524>>, <<30314, 2747>>, <<33218, 51502>>, <<37490, 11397>>,
    <<41663, 59553>>, <<43034, 26187>>, <<49739, 35696>>, <<51052, 20899>>,
    <<53650, 59417>>, <<54937, 1572>>, <<62478, 13701>>, <<4202, 41072>>,
    <<6564, 49430>>, <<7735, 27656>>, <<10056, 30540>>, <<13488, 48309>>,
    <<14620, 3251>>, <<20184, 43594>>, <<23452, 51791>>, <<26670, 28659>>,
    <<29839, 33518>>, <<30885, 25455>>, <<33992, 30740>>, <<36039, 520>>,
    <<37054, 65530>>, <<42064, 27883>>, <<48889, 41975>>, <<50801, 30962>>>>

\* the message padded to whole blocks of 64 bytes: a 1 bit, zero bits, the
\* length in bits in 8 bytes, big-endian
Sha256_pad(data) ==
  LET n == Len(data)
      bits == 8 * n
  IN  data \o <<128>> \o [i \in 1..((55 - n) % 64) |-> 0] \o <<0, 0, 0, 0>>
      \o <<(bits \div 16777216) % 256, (bits \div 65536) % 256,
           (bits \div 256) % 256, bits % 256>>

\* word t (from 0) of block b (from 0) of the padded message m
BlockWord(m, b, t) ==
  LET base == 64 * b + 4 * t
  IN  Word(m[base + 1] * 256 + m[base + 2], m[base + 3] * 256 + m[base + 4])

\* the next word of the message schedule w
ScheduleWord(w) ==
  LET RotR(x, n) == [i \in 0..31 |-> x[(i + n) % 32]]
      ShR(x, n) == [i \in 0..31 |-> IF i + n <= 31 THEN x[i + n] ELSE 0]
      Xor3(a, b, c) == [i \in 0..31 |-> (a[i] + b[i] + c[i]) % 2]
      SmallSigma0(x) == Xor3(RotR(x, 7), RotR(x, 18), ShR(x, 3))
      SmallSigma1(x) == Xor3(RotR(x, 17), RotR(x, 19), ShR(x, 10))
      t == Len(w) + 1
  IN  WrappingSum(<<SmallSigma1(w[t - 2]), w[t - 7], SmallSigma0(w[t - 15]), w[t - 16]>>)

\* one round on the working variables v = <<a, b, c, d, e, f, g, h>>
Sha256_round(v, k, w) ==
  LET RotR(x, n) == [i \in 0..31 |-> x[(i + n) % 32]]
      Xor3(a, b, c) == [i \in 0..31 |-> (a[i] + b[i] + c[i]) % 2]
      Ch(e, f, g) == [i \in 0..31 |-> IF e[i] = 1 THEN f[i] ELSE g[i]]
      Maj(a, b, c) == [i \in 0..31 |-> IF a[i] + b[i] + c[i] >= 2 THEN 1 ELSE 0]
      BigSigma0(x) == Xor3(RotR(x, 2), RotR(x, 13), RotR(x, 22))
      BigSigma1(x) == Xor3(RotR(x, 6), RotR(x, 11), RotR(x, 25))
      t1 == WrappingSum(<<v[8], BigSigma1(v[5]), Ch(v[5], v[6], v[7]), k, w>>)
      t2 == WrappingSum(<<BigSigma0(v[1]), Maj(v[1], v[2], v[3])>>)
  IN  <<WrappingSum(<<t1, t2>>), v[1], v[2], v[3],
        WrappingSum(<<v[4], t1>>), v[5], v[6], v[7]>>

\* the 32 bytes of the hash value h, each word big-endian
DigestBytes(h) ==
  [i \in 1..32 |-> HalfValue(h[((i - 1) \div 4) + 1], 8 * (3 - ((i - 1) % 4)), 8)]

(***************************************************************************)
(* object.rs: Blob                                                         *)
(***************************************************************************)
Blob_new(content) == [kind |-> "Blob", content |-> content, hash |-> None]

\* with_hash that keeps the digest only if it is the digest of content
Blob_with_hash_verified(content, hash) ==
  [kind |-> "Blob", content |-> content,
   hash |-> IF hash = hash_bytes(STR_blob \o ToDecimal(Len(content)) \o NUL \o content)
            THEN Some(hash) ELSE None]

Blob_with_hash(content, hash) ==
  [kind |-> "Blob", content |-> content, hash |-> Some(hash)]

\* Blob::hash that digests the header alone
Blob_hash_header_only(self) ==
  LET header == STR_blob \o ToDecimal(Len(self.content)) \o NUL
      after  == IF is_none(self.hash)
                THEN [self EXCEPT !.hash = Some(hash_bytes(header))]
                ELSE self
  IN  [self |-> after, ret |-> unwrap(after.hash)]

\* Blob::hash(&mut self) -> &str: the object afterwards and the value returned
Blob_hash(self) ==
  LET header == STR_blob \o ToDecimal(Len(self.content)) \o NUL
      data   == header \o self.content
      after  == IF is_none(self.hash)
                THEN [self EXCEPT !.hash = Some(hash_bytes(data))]
                ELSE self
  IN  [self |-> after, ret |-> unwrap(after.hash)]

Blob_cached_hash(self) == self.hash

(***************************************************************************)
(* object.rs: TreeEntry and Tree                                           *)
(***************************************************************************)
TreeEntry_file(name, hash) ==
  [name |-> name, object_type |-> "Blob", hash |-> hash, mode |-> MODE_FILE]

TreeEntry_executable(name, hash) ==
  [name |-> name, object_type |-> "Blob", hash |-> hash, mode |-> MODE_EXEC]

TreeEntry_directory(name, hash) ==
  [name |-> name, object_type |-> "Tree", hash |-> hash, mode |-> MODE_DIR]

\* Ord for String (a.name.cmp(&b.name)): byte-lexicographic
RECURSIVE cmp(_, _)
cmp(a, b) ==
  IF a = <<>> THEN (IF b = <<>> THEN "Equal" ELSE "Less")
  ELSE IF b = <<>> THEN "Greater"
  ELSE IF a[1] < b[1] THEN "Less"
  ELSE IF a[1] > b[1] THEN "Greater"
  ELSE cmp(Tail(a), Tail(b))

\* one step of a stable sort: e goes after every element that is not greater
RECURSIVE InsertByName(_, _)
InsertByName(sorted, e) ==
  IF sorted = <<>> THEN <<e>>
  ELSE IF cmp(e.name, Head(sorted).name) = "Less" THEN <<e>> \o sorted
  ELSE <<Head(sorted)>> \o InsertByName(Tail(sorted), e)

\* entries.sort_by(|a, b| a.name.cmp(&b.name)): slice::sort_by is stable
RECURSIVE sort_by_name(_)
sort_by_name(entries) ==
  IF entries = <<>> THEN <<>>
  ELSE InsertByName(sort_by_name(SubSeq(entries, 1, Len(entries) - 1)),
                    entries[Len(entries)])

Tree_new == [kind |-> "Tree", entries |-> <<>>, hash |-> None]

\* with_entries without the sort
Tree_with_entries_unsorted(entries) ==
  [kind |-> "Tree", entries |-> entries, hash |-> None]

Tree_with_entries(entries) ==
  [kind |-> "Tree", entries |-> sort_by_name(entries), hash |-> None]

\* add_entry without the re-sort
Tree_add_entry_unsorted(self, entry) ==
  [self EXCEPT !.entries = Append(self.entries, entry), !.hash = None]

\* add_entry without the invalidation
Tree_add_entry_stale(self, entry) ==
  [self EXCEPT !.entries = sort_by_name(Append(self.entries, entry))]

\* add_entry that replaces the entry of the same name, if there is one
Tree_add_entry_replace(self, entry) ==
  LET others == SelectSeq(self.entries, LAMBDA e : e.name # entry.name)
  IN  [self EXCEPT !.entries = sort_by_name(Append(others, entry)),
                   !.hash = None]

Tree_add_entry(self, entry) ==
  [self EXCEPT !.entries = sort_by_name(Append(self.entries, entry)),
               !.hash = None]

Tree_entries(self) == self.entries

\* self.entries.iter().find(|e| e.name == name)
Tree_find(self, name) ==
  LET at == {j \in 1..Len(self.entries) : self.entries[j].name = name}
  IN  IF at = {} THEN None
      ELSE Some(self.entries[CHOOSE j \in at : \A k \in at : j <= k])

Tree_len(self) == Len(self.entries)

\* the loop of Tree::hash with the entry's type written into its line
RECURSIVE TreeData_typed(_)
TreeData_typed(entries) ==
  IF entries = <<>> THEN <<>>
  ELSE LET entry == Head(entries)
           kind  == CASE entry.object_type = "Blob"   -> STR_blob
                      [] entry.object_type = "Tree"   -> STR_tree
                      [] entry.object_type = "Commit" -> STR_commit
           line  == entry.mode \o <<32>> \o kind \o entry.name \o NUL
       IN  line \o entry.hash \o TreeData_typed(Tail(entries))

\* the loop of Tree::hash: "{mode} {name}\0" and the entry's hash text, per entry
RECURSIVE TreeData(_)
TreeData(entries) ==
  IF entries = <<>> THEN <<>>
  ELSE LET entry == Head(entries)
           line  == entry.mode \o <<32>> \o entry.name \o NUL
       IN  line \o entry.hash \o TreeData(Tail(entries))

\* Tree::hash with the entry count, not the byte length, in the header
Tree_hash_count(self) ==
  LET data      == TreeData(self.entries)
      header    == STR_tree \o ToDecimal(Len(self.entries)) \o NUL
      full_data == header \o data
      after     == IF is_none(self.hash)
                   THEN [self EXCEPT !.hash = Some(hash_bytes(full_data))]
                   ELSE self
  IN  [self |-> after, ret |-> unwrap(after.hash)]

Tree_hash(self) ==
  LET data      == TreeData(self.entries)
      header    == STR_tree \o ToDecimal(Len(data)) \o NUL
      full_data == header \o data
      after     == IF is_none(self.hash)
                   THEN [self EXCEPT !.hash = Some(hash_bytes(full_data))]
                   ELSE self
  IN  [self |-> after, ret |-> unwrap(after.hash)]

(***************************************************************************)
(* object.rs: Commit                                                       *)
(***************************************************************************)
Commit_new(tree_hash, parent_hash, message, author_name, author_email, timestamp) ==
  [kind |-> "Commit", tree_hash |-> tree_hash, parent_hash |-> parent_hash,
   message |-> message, author_name |-> author_name,
   author_email |-> author_email, timestamp |-> timestamp, hash |-> None]

Commit_initial(tree_hash, message, author_name, author_email, timestamp) ==
  Commit_new(tree_hash, None, message, author_name, author_email, timestamp)

\* is_initial that takes an empty parent text for no parent
Commit_is_initial_empty_parent(self) ==
  (IF is_none(self.parent_hash) THEN <<>> ELSE unwrap(self.parent_hash)) = <<>>

Commit_is_initial(self) == is_none(self.parent_hash)

\* Commit::hash that returns the digest without storing it
Commit_hash_uncached(self) ==
  LET parent    == IF is_none(self.parent_hash) THEN <<>> ELSE unwrap(self.parent_hash)
      content   == STR_tree \o self.tree_hash \o STR_parent \o parent
                   \o STR_author \o self.author_name \o STR_lt \o self.author_email
                   \o STR_date \o self.timestamp \o STR_blank \o self.message
      header    == STR_commit \o ToDecimal(Len(content)) \o NUL
      full_data == header \o content
  IN  [self |-> self,
       ret  |-> IF is_none(self.hash) THEN hash_bytes(full_data) ELSE unwrap(self.hash)]

\* the serialization with "None" written for a missing parent
Commit_full_data_none_marker(self) ==
  LET parent    == IF is_none(self.parent_hash) THEN <<78, 111, 110, 101>>
                   ELSE unwrap(self.parent_hash)
      content   == STR_tree \o self.tree_hash \o STR_parent \o parent
                   \o STR_author \o self.author_name \o STR_lt \o self.author_email
                   \o STR_date \o self.timestamp \o STR_blank \o self.message
      header    == STR_commit \o ToDecimal(Len(content)) \o NUL
  IN  header \o content

\* full_data of Commit::hash: the bytes handed to hash_bytes
Commit_full_data(self) ==
  LET parent    == IF is_none(self.parent_hash) THEN <<>> ELSE unwrap(self.parent_hash)
      content   == STR_tree \o self.tree_hash \o STR_parent \o parent
                   \o STR_author \o self.author_name \o STR_lt \o self.author_email
                   \o STR_date \o self.timestamp \o STR_blank \o self.message
      header    == STR_commit \o ToDecimal(Len(content)) \o NUL
  IN  header \o content

Commit_hash(self) ==
  LET full_data == Commit_full_data(self)
      after     == IF is_none(self.hash)
                   THEN [self EXCEPT !.hash = Some(hash_bytes(full_data))]
                   ELSE self
  IN  [self |-> after, ret |-> unwrap(after.hash)]

Commit_cached_hash(self) == self.hash

\* assignment to one of Commit's pub fields (the hash field is private)
Commit_set(self, field, value) ==
  CASE field = "tree_hash"    -> [self EXCEPT !.tree_hash = value]
    [] field = "parent_hash"  -> [self EXCEPT !.parent_hash = value]
    [] field = "message"      -> [self EXCEPT !.message = value]
    [] field = "author_name"  -> [self EXCEPT !.author_name = value]
    [] field = "author_email" -> [self EXCEPT !.author_email = value]
    [] field = "timestamp"    -> [self EXCEPT !.timestamp = value]

(***************************************************************************)
(* compression.rs: the zlib codec.  flate2 is an external crate; the       *)
(* container is modelled by its format (RFC 1950: a 2-byte header, a       *)
(* deflate stream, the Adler-32 of the content in 4 bytes, big-endian),    *)
(* with the deflate stream made of stored blocks (RFC 1951, 3.2.4), which  *)
(* is what Compression::none() writes, and of blocks of fixed Huffman      *)
(* codes (RFC 1951, 3.2.6).                                                *)
(***************************************************************************)
\* the widest payload of a container
MaxData == 3

\* the width of usize in bits, scaled down from 64
UsizeBits == 3

UsizeMax == 2 ^ UsizeBits - 1

ADLER_MOD == 65521

RECURSIVE AdlerA(_, _)
AdlerA(data, n) ==
  IF n = 0 THEN 1 ELSE (AdlerA(data, n - 1) + data[n]) % ADLER_MOD

RECURSIVE AdlerB(_, _)
AdlerB(data, n) ==
  IF n = 0 THEN 0 ELSE (AdlerB(data, n - 1) + AdlerA(data, n)) % ADLER_MOD

\* the Adler-32 checksum of data, as the trailer's four bytes
Adler32(data) ==
  LET a == AdlerA(data, Len(data))
      b == AdlerB(data, Len(data))
  IN  <<b \div 256, b % 256, a \div 256, a % 256>>

\* one stored block: BFINAL and BTYPE = 00, LEN, its complement NLEN, the bytes
StoredBlock(data, final) ==
  <<IF final THEN 1 ELSE 0,
    Len(data) % 256, Len(data) \div 256,
    255 - (Len(data) % 256), 255 - (Len(data) \div 256)>> \o data

\* the container ZlibEncoder writes at Compression::none(): header 78 01
ZlibStored(data) == <<120, 1>> \o StoredBlock(data, TRUE) \o Adler32(data)

HeaderOk(cmf, flg) ==
  /\ cmf % 16 = 8
  /\ cmf \div 16 <= 7
  /\ (cmf * 256 + flg) % 31 = 0
  /\ (flg \div 32) % 2 = 0

\* bit k (from 0) of the stream: the bits of a byte are used from the least
\* significant one up
Bit(data, k) == (data[(k \div 8) + 1] \div (2 ^ (k % 8))) % 2

\* the n bits from bit k as a Huffman code: the first bit is the most significant
RECURSIVE BitsMsb(_, _, _)
BitsMsb(data, k, n) ==
  IF n = 0 THEN 0 ELSE 2 * BitsMsb(data, k, n - 1) + Bit(data, k + n - 1)

\* the n bits from bit k as a number: the first bit is the least significant
RECURSIVE BitsLsb(_, _, _)
BitsLsb(data, k, n) ==
  IF n = 0 THEN 0 ELSE Bit(data, k) + 2 * BitsLsb(data, k + 1, n - 1)

\* RFC 1951, 3.2.5: base and extra bits of the length symbols 257..285 and
\* of the distance codes 0..29
LengthBase ==
  <<3, 4, 5, 6, 7, 8, 9, 10, 11, 13, 15, 17, 19, 23, 27, 31, 35, 43, 51, 59,
    67, 83, 99, 115, 131, 163, 195, 227, 258>>

LengthExtra ==
  <<0, 0, 0, 0, 0, 0, 0, 0, 1, 1, 1, 1, 2, 2, 2, 2, 3, 3, 3, 3,
    4, 4, 4, 4, 5, 5, 5, 5, 0>>

DistBase ==
  <<1, 2, 3, 4, 5, 7, 9, 13, 17, 25, 33, 49, 65, 97, 129, 193, 257, 385, 513,
    769, 1025, 1537, 2049, 3073, 4097, 6145, 8193, 12289, 16385, 24577>>

DistExtra ==
  <<0, 0, 0, 0, 1, 1, 2, 2, 3, 3, 4, 4, 5, 5, 6, 6, 7, 7, 8, 8,
    9, 9, 10, 10, 11, 11, 12, 12, 13, 13>>

\* the symbol of the fixed Huffman code (RFC 1951, 3.2.6) at bit k and the
\* bits it takes; sym = -1 when the stream ends inside the code
FixedSymbol(data, k) ==
  LET avail == 8 * Len(data) - k
      short == [sym |-> -1, bits |-> 0]
  IN  IF avail < 7 THEN short
      ELSE LET v7 == BitsMsb(data, k, 7)
           IN  IF v7 <= 23 THEN [sym |-> 256 + v7, bits |-> 7]
               ELSE IF v7 <= 99
                 THEN IF avail < 8 THEN short
                      ELSE LET v8 == BitsMsb(data, k, 8)
                           IN  IF v8 <= 191 THEN [sym |-> v8 - 48, bits |-> 8]
                               ELSE [sym |-> 280 + (v8 - 192), bits |-> 8]
               ELSE IF avail < 9 THEN short
               ELSE [sym |-> 144 + (BitsMsb(data, k, 9) - 400), bits |-> 9]

\* out with n more bytes, each a copy of the byte dist places back
RECURSIVE Copy(_, _, _)
Copy(out, dist, n) ==
  IF n = 0 THEN out ELSE Copy(Append(out, out[Len(out) - dist + 1]), dist, n - 1)

\* a block of fixed Huffman codes from bit k on: the output, and where and
\* how the block ends ("block": at its end-of-block symbol)
RECURSIVE FixedBlock(_, _, _)
FixedBlock(data, k, out) ==
  LET s == FixedSymbol(data, k)
  IN  IF s.sym = -1 THEN [out |-> out, end |-> "truncated", bit |-> k]
      ELSE IF s.sym < 256 THEN FixedBlock(data, k + s.bits, Append(out, s.sym))
      ELSE IF s.sym = 256 THEN [out |-> out, end |-> "block", bit |-> k + s.bits]
      ELSE IF s.sym > 285 THEN [out |-> out, end |-> "corrupt", bit |-> k]
      ELSE
        LET li == s.sym - 256
            k1 == k + s.bits
            le == LengthExtra[li]
        IN  IF 8 * Len(data) - k1 < le + 5
              THEN [out |-> out, end |-> "truncated", bit |-> k]
            ELSE
              LET length == LengthBase[li] + BitsLsb(data, k1, le)
                  dc     == BitsMsb(data, k1 + le, 5)
                  k2     == k1 + le + 5
              IN  IF dc > 29 THEN [out |-> out, end |-> "corrupt", bit |-> k]
                  ELSE IF 8 * Len(data) - k2 < DistExtra[dc + 1]
                    THEN [out |-> out, end |-> "truncated", bit |-> k]
                  ELSE
                    LET de   == DistExtra[dc + 1]
                        dist == DistBase[dc + 1] + BitsLsb(data, k2, de)
                    IN  IF dist > Len(out)
                          THEN [out |-> out, end |-> "corrupt", bit |-> k]
                        ELSE FixedBlock(data, k2 + de, Copy(out, dist, length))

\* the deflate stream from bit k on, out being the bytes produced so far:
\* every byte the decoder produces, and how the stream ends.  Blocks of
\* dynamic Huffman codes (BTYPE = 10) are not decoded: no input has one.
RECURSIVE Inflate(_, _, _)
Inflate(data, k, out) ==
  IF 8 * Len(data) - k < 3 THEN [out |-> out, end |-> "truncated"]
  ELSE
    LET bfinal == Bit(data, k)
        btype  == Bit(data, k + 1) + 2 * Bit(data, k + 2)
        \* after a block that ended at bit k2: the next block, or the trailer
        After(k2, got) ==
          IF bfinal = 0 THEN Inflate(data, k2, got)
          ELSE LET t == ((k2 + 7) \div 8) + 1
               IN  IF t + 3 > Len(data) THEN [out |-> got, end |-> "truncated"]
                   ELSE IF SubSeq(data, t, t + 3) # Adler32(got)
                     THEN [out |-> got, end |-> "corrupt"]
                   ELSE [out |-> got, end |-> "eof"]
    IN  CASE btype = 0 ->
               LET h == ((k + 3 + 7) \div 8) + 1
               IN  IF h + 3 > Len(data) THEN [out |-> out, end |-> "truncated"]
                   ELSE
                     LET len   == data[h] + 256 * data[h + 1]
                         nlen  == data[h + 2] + 256 * data[h + 3]
                         avail == Len(data) - (h + 3)
                     IN  IF len + nlen # 65535 THEN [out |-> out, end |-> "corrupt"]
                         ELSE IF avail < len
                           THEN [out |-> out \o SubSeq(data, h + 4, Len(data)),
                                 end |-> "truncated"]
                         ELSE After(8 * (h + 3 + len),
                                    out \o SubSeq(data, h + 4, h + 3 + len))
          [] btype = 1 ->
               LET b == FixedBlock(data, k + 3, out)
               IN  IF b.end = "block" THEN After(b.bit, b.out)
                   ELSE [out |-> b.out, end |-> b.end]
          [] btype = 2 -> [out |-> out, end |-> "dynamic"]
          [] btype = 3 -> [out |-> out, end |-> "corrupt"]

\* the n bits of the Huffman code v, the most significant first
CodeBits(v, n) == [i \in 1..n |-> (v \div (2 ^ (n - i))) % 2]

\* the n extra bits of v, the least significant first
ExtraBits(v, n) == [i \in 1..n |-> (v \div (2 ^ (i - 1))) % 2]

\* the fixed Huffman code of a literal, end-of-block or length symbol
FixedCode(sym) ==
  IF sym <= 143 THEN CodeBits(48 + sym, 8)
  ELSE IF sym <= 255 THEN CodeBits(400 + (sym - 144), 9)
  ELSE IF sym <= 279 THEN CodeBits(sym - 256, 7)
  ELSE CodeBits(192 + (sym - 280), 8)

\* the length of the match of x from position i with the bytes d places back
RECURSIVE MatchLen(_, _, _, _)
MatchLen(x, i, d, l) ==
  IF i + l <= Len(x) /\ l < 258 /\ x[i + l] = x[i + l - d]
  THEN MatchLen(x, i, d, l + 1)
  ELSE l

\* the longest match at position i, the nearest one among the longest
BestMatch(x, i) ==
  IF i = 1 THEN [len |-> 0, dist |-> 0, lit |-> x[i]]
  ELSE LET best == CHOOSE d \in 1..(i - 1) :
                     \A e \in 1..(i - 1) :
                       \/ MatchLen(x, i, e, 0) < MatchLen(x, i, d, 0)
                       \/ MatchLen(x, i, e, 0) = MatchLen(x, i, d, 0) /\ d <= e
       IN  [len |-> MatchLen(x, i, best, 0), dist |-> best, lit |-> x[i]]

\* LZ77: x from position i on as literals and matches of 3 bytes or more
RECURSIVE Lz77(_, _)
Lz77(x, i) ==
  IF i > Len(x) THEN <<>>
  ELSE LET m == BestMatch(x, i)
       IN  IF m.len >= 3 THEN <<m>> \o Lz77(x, i + m.len)
           ELSE <<[len |-> 0, dist |-> 0, lit |-> x[i]]>> \o Lz77(x, i + 1)

\* the bits of one literal or match under the fixed Huffman code
TokenBits(t) ==
  IF t.len = 0 THEN FixedCode(t.lit)
  ELSE LET li == CHOOSE i \in 1..29 :
                   LengthBase[i] <= t.len /\ (i = 29 \/ t.len < LengthBase[i + 1])
           di == CHOOSE i \in 1..30 :
                   DistBase[i] <= t.dist /\ (i = 30 \/ t.dist < DistBase[i + 1])
       IN  FixedCode(256 + li)
           \o ExtraBits(t.len - LengthBase[li], LengthExtra[li])
           \o CodeBits(di - 1, 5)
           \o ExtraBits(t.dist - DistBase[di], DistExtra[di])

RECURSIVE TokensBits(_)
TokensBits(tokens) ==
  IF tokens = <<>> THEN <<>> ELSE TokenBits(Head(tokens)) \o TokensBits(Tail(tokens))

\* the bits as bytes, each byte filled from its least significant bit, the
\* last one padded with zero bits
Pack(bits) ==
  [j \in 1..((Len(bits) + 7) \div 8) |->
     LET b(i) == IF 8 * (j - 1) + i <= Len(bits) THEN bits[8 * (j - 1) + i] ELSE 0
     IN  b(1) + 2 * b(2) + 4 * b(3) + 8 * b(4)
         + 16 * b(5) + 32 * b(6) + 64 * b(7) + 128 * b(8)]

\* one final block of fixed Huffman codes: BFINAL = 1, BTYPE = 01, the
\* literals and matches, the end-of-block symbol
FixedHuffmanBlock(data) ==
  Pack(<<1, 1, 0>> \o TokensBits(Lz77(data, 1)) \o FixedCode(256))

\* Compression::none(), fast(), default_compression(), best()
Compression_none == 0

Compression_fast == 1

Compression_default == 6

Compression_best == 9

\* the header of the container: CMF = 0x78 and FLG with the level class
ZlibHeader(level) ==
  <<120, CASE level <= 1 -> 1
           [] level <= 5 -> 94
           [] level = 6  -> 156
           [] OTHER      -> 218>>

\* ZlibDecoder::new(data) as a reader: the bytes it yields and how it ends
ZlibDecoder(data) ==
  IF Len(data) < 2 THEN [out |-> <<>>, end |-> "truncated"]
  ELSE IF ~HeaderOk(data[1], data[2]) THEN [out |-> <<>>, end |-> "corrupt"]
  ELSE Inflate(data, 16, <<>>)

Ok(value) == [tag |-> "Ok", value |-> value]

Err(kind, what) == [tag |-> "Err", kind |-> kind, what |-> what]

Panic == [tag |-> "Panic"]

\* what a read at the end of the stream returns.  A stream cut short is an
\* error or a plain end of input, depending on the decoder (strict or not).
EndOfStream(end, strict) ==
  CASE end = "eof"       -> Ok(0)
    [] end = "corrupt"   -> Err("InvalidInput", "corrupt deflate stream")
    [] end = "truncated" ->
         IF strict THEN Err("UnexpectedEof", "truncated deflate stream") ELSE Ok(0)

\* decompress: read_to_end on the decoder
decompress(data, strict) ==
  LET stream == ZlibDecoder(data)
      ended  == EndOfStream(stream.end, strict)
  IN  IF ended.tag = "Err" THEN ended ELSE Ok(stream.out)

\* compress_with_level with the trailer left zero
compress_with_level_no_checksum(data, level) ==
  [tag |-> "Ok",
   value |-> ZlibHeader(level)
             \o (IF level = 0 THEN StoredBlock(data, TRUE) ELSE FixedHuffmanBlock(data))
             \o <<0, 0, 0, 0>>]

\* compress_with_level: read_to_end on ZlibEncoder::new(data, level).  Level
\* 0 stores the bytes; the other levels write Huffman-coded literals and
\* matches.  Reading from a slice does not fail.
compress_with_level(data, level) ==
  [tag |-> "Ok",
   value |-> ZlibHeader(level)
             \o (IF level = 0 THEN StoredBlock(data, TRUE) ELSE FixedHuffmanBlock(data))
             \o Adler32(data)]

default_compression == Compression_default

compress(data) == compress_with_level(data, default_compression)

\* max_size + 1 on usize: an overflow panics with overflow checks on (the
\* dev and test profiles) and wraps without them (the release profile)
LimitPlusOne(max_size, overflow_checks) ==
  IF max_size + 1 <= UsizeMax THEN Ok(max_size + 1)
  ELSE IF overflow_checks THEN Panic
  ELSE Ok((max_size + 1) % (UsizeMax + 1))

\* a read through Take with no regard for the limit left
TakeRead_unlimited(limit, remaining) == 1..remaining

\* the sizes one Take::read may return when limit bytes may still be taken
\* and the decoder has remaining bytes to give: at least one byte, never
\* more than the limit
TakeRead(limit, remaining) ==
  1..(IF limit < remaining THEN limit ELSE remaining)

\* the size-limit error with the kind the decoder gives corrupt data
LimitCheck_invalid_input(decompressed, max_size) ==
  IF Len(decompressed) > max_size
  THEN [tag |-> "Err", kind |-> "InvalidInput", what |-> "exceeds limit"]
  ELSE [tag |-> "Ok", value |-> decompressed]

\* the final check of decompress_with_limit on the buffer read
LimitCheck(decompressed, max_size) ==
  IF Len(decompressed) > max_size
  THEN Err("InvalidData", "exceeds limit")
  ELSE Ok(decompressed)


\* compression_ratio.  An f64 is the exact fraction num / den it stands for
\* (den > 0): usize as f64 and the one division and subtraction are exact
\* on the sizes of the model.
compression_ratio(original_size, compressed_size) ==
  IF original_size = 0 THEN [num |-> 0, den |-> 1]
  ELSE [num |-> original_size - compressed_size, den |-> original_size]

is_compression_effective(original_size, compressed_size) ==
  compressed_size < original_size

(***************************************************************************)
(* hash.rs: verification and the streaming digest.                         *)
(***************************************************************************)
\* str::to_lowercase on ASCII text: A-Z become a-z, every other byte stays
to_lowercase(s) ==
  [i \in 1..Len(s) |-> IF s[i] \in 65..90 THEN s[i] + 32 ELSE s[i]]

\* verify that compares the text as given
verify_exact(data, expected_hash) ==
  LET actual_hash == hash_bytes(data)
  IN  actual_hash = expected_hash

\* Hasher::verify
verify(data, expected_hash) ==
  LET actual_hash == hash_bytes(data)
  IN  actual_hash = to_lowercase(expected_hash)

\* Hasher::hash_str: hash_bytes of the text's bytes
hash_str(s) == hash_bytes(s)

\* Hasher::new(): a struct with no field
Hasher_new == [kind |-> "Hasher", fields |-> <<>>]

\* an update that keeps the input fed so far in the Hasher, not in the call
Sha256_update_shared(self, hasher, data) ==
  [self |-> [self EXCEPT !.fields = @ \o data], hasher |-> self.fields \o data]

\* hasher.update(data) inside a method of Hasher (&self): the Sha256 is a
\* local of the call; the Hasher is read-only and has nothing to read
Sha256_update(self, hasher, data) ==
  [self |-> self, hasher |-> hasher \o data]

\* the size of the read buffer, scaled down from 8 * 1024
BUFFER_SIZE == 2

\* reader.read(&mut buffer) that returned n bytes: they replace the first n
\* bytes of the buffer, the rest keeps what earlier reads left
ReadInto(buffer, bytes) ==
  [i \in 1..Len(buffer) |-> IF i <= Len(bytes) THEN bytes[i] ELSE buffer[i]]

\* hasher.update with the whole buffer
HasherUpdate_whole_buffer(hasher, buffer, bytes_read) == hasher \o buffer

\* hasher.update(&buffer[..bytes_read]): the hasher is the input fed so far
HasherUpdate(hasher, buffer, bytes_read) ==
  hasher \o SubSeq(buffer, 1, bytes_read)

\* hex::encode(hasher.finalize())
HasherFinalize(hasher) == hex_encode(Sha256(hasher))

\* verify_file that answers false when hash_file fails
verify_file_result_false(hashed, expected_hash) ==
  IF hashed.tag = "Err" THEN [tag |-> "Ok", value |-> FALSE]
  ELSE [tag |-> "Ok", value |-> (hashed.value = to_lowercase(expected_hash))]

\* verify_file, given what hash_file(path) returned:
\* let actual_hash = self.hash_file(path)?; Ok(actual_hash == ...)
verify_file_result(hashed, expected_hash) ==
  IF hashed.tag = "Err" THEN hashed
  ELSE [tag |-> "Ok", value |-> (hashed.value = to_lowercase(expected_hash))]

(***************************************************************************)
(* repository_name.rs: RepositoryName.  name.len() counts bytes; a char    *)
(* that is not ASCII is made of bytes of 128 and more, so chars().all(..)  *)
(* holds exactly when every byte is an allowed ASCII character.            *)
(***************************************************************************)
is_ascii_alphanumeric(c) == c \in 48..57 \/ c \in 65..90 \/ c \in 97..122

\* new that takes names shorter than 100 bytes only
RepositoryName_new_off_by_one(name) ==
  IF Len(name) = 0
    THEN [tag |-> "Err", kind |-> "InvalidInput", what |-> "cannot be empty"]
  ELSE IF Len(name) >= 100
    THEN [tag |-> "Err", kind |-> "InvalidInput", what |-> "too long"]
  ELSE IF ~(\A i \in 1..Len(name) :
              is_ascii_alphanumeric(name[i]) \/ name[i] = 45 \/ name[i] = 95)
    THEN [tag |-> "Err", kind |-> "InvalidInput", what |-> "characters"]
  ELSE [tag |-> "Ok", value |-> [kind |-> "RepositoryName", value |-> name]]

\* RepositoryName::new: Err(AppError::InvalidInput(..)) or Ok(Self(name))
RepositoryName_new(name) ==
  IF Len(name) = 0
    THEN Err("InvalidInput", "cannot be empty")
  ELSE IF Len(name) > 100
    THEN Err("InvalidInput", "too long")
  ELSE IF ~(\A i \in 1..Len(name) :
              is_ascii_alphanumeric(name[i]) \/ name[i] = 45 \/ name[i] = 95)
    THEN Err("InvalidInput", "characters")
  ELSE Ok([kind |-> "RepositoryName", value |-> name])

RepositoryName_value(self) == self.value

(***************************************************************************)
(* The inputs the callers pass.                                            *)
(***************************************************************************)
\* file contents: empty, a NUL byte, "h", "hi"
BlobContents == {<<>>, <<0>>, <<104>>, <<104, 105>>}

\* a digest text that is the digest of no content of the model: "x"
ForeignHash == <<120>>

\* entry names "a", "b", "Z" and referenced digests "h1", "h2"
EntryInputs ==
  {TreeEntry_file(<<97>>, <<104, 49>>),
   TreeEntry_file(<<97>>, <<104, 50>>),
   TreeEntry_directory(<<98>>, <<104, 49>>),
   TreeEntry_executable(<<90>>, <<104, 50>>)}

EntryLists == UNION {[1..n -> EntryInputs] : n \in 0..MaxEntries}

\* "t1", "t2"
TreeHashes == {<<116, 49>>, <<116, 50>>}

\* no parent, an empty parent text, "p1"
ParentHashes == {None, Some(<<>>), Some(<<112, 49>>)}

\* "", "m"
Messages == {<<>>, <<109>>}

\* "n", "n2"
AuthorNames == {<<110>>, <<110, 50>>}

\* "e"
AuthorEmails == {<<101>>}

\* "d"
Timestamps == {<<100>>}

FieldValues(field) ==
  CASE field = "tree_hash"    -> TreeHashes
    [] field = "parent_hash"  -> ParentHashes
    [] field = "message"      -> Messages
    [] field = "author_name"  -> AuthorNames
    [] field = "author_email" -> AuthorEmails
    [] field = "timestamp"    -> Timestamps

CommitFields ==
  {"tree_hash", "parent_hash", "message", "author_name", "author_email", "timestamp"}

(***************************************************************************)
(* State.  obj[i] is the object in slot i (Absent: no object); last is the *)
(* most recent call on slot 1 as its caller saw it: the method, its        *)
(* argument, the cache before the call, the value returned, and the same   *)
(* four of the call before it.  call is the state of a                     *)
(* decompress_with_limit call (see the codec below).                       *)
(***************************************************************************)
Absent == [kind |-> "Absent"]

NoCall ==
  [op |-> "none", arg |-> None, pre |-> None, ret |-> None,
   prior |-> [op |-> "none", arg |-> None, pre |-> None, ret |-> None]]

Called(op, arg, pre, ret) ==
  [op |-> op, arg |-> arg, pre |-> pre, ret |-> ret,
   prior |-> [op |-> last.op, arg |-> last.arg, pre |-> last.pre, ret |-> last.ret]]

Idle == [pc |-> "idle"]

\* the constructors, each with its name and the argument its caller keeps
\* (the digest given to Blob::with_hash, the parent given to Commit::new)
Constructed ==
  {<<Blob_new(c), "Blob::new", None>> : c \in BlobContents}
  \cup {<<Blob_with_hash(c, h), "Blob::with_hash", Some(h)>> :
          c \in BlobContents, h \in {ForeignHash, Blob_hash(Blob_new(<<104>>)).ret}}
  \cup {<<Tree_new, "Tree::new", None>>}
  \cup {<<Tree_with_entries(es), "Tree::with_entries", None>> : es \in EntryLists}
  \cup {<<Commit_new(t, p, m, n, e, d), "Commit::new", Some(p)>> :
          t \in TreeHashes, p \in ParentHashes, m \in Messages,
          n \in AuthorNames, e \in AuthorEmails, d \in Timestamps}
  \cup {<<Commit_initial(t, m, n, e, d), "Commit::initial", None>> :
          t \in TreeHashes, m \in Messages,
          n \in AuthorNames, e \in AuthorEmails, d \in Timestamps}

(***************************************************************************)
(* The calls on the object in slot i.                                      *)
(***************************************************************************)
BlobHash(i) ==
  /\ obj[i].kind = "Blob"
  /\ obj' = [obj EXCEPT ![i] = Blob_hash(obj[i]).self]
  /\ UNCHANGED call

TreeAddEntry(i, entry) ==
  /\ obj[i].kind = "Tree"
  /\ Len(obj[i].entries) < MaxEntries
  /\ obj' = [obj EXCEPT ![i] = Tree_add_entry(obj[i], entry)]
  /\ UNCHANGED call

TreeHash(i) ==
  /\ obj[i].kind = "Tree"
  /\ obj' = [obj EXCEPT ![i] = Tree_hash(obj[i]).self]
  /\ UNCHANGED call

CommitHash(i) ==
  /\ obj[i].kind = "Commit"
  /\ obj' = [obj EXCEPT ![i] = Commit_hash(obj[i]).self]
  /\ UNCHANGED call

CommitAssign(i, field, value) ==
  /\ obj[i].kind = "Commit"
  /\ obj' = [obj EXCEPT ![i] = Commit_set(obj[i], field, value)]
  /\ UNCHANGED call

(***************************************************************************)
(* Spec: one object, built by any constructor, then any sequence of calls, *)
(* each recorded in last.                                                  *)
(***************************************************************************)
Init ==
  /\ \E c \in Constructed :
       /\ obj = [i \in 1..2 |-> IF i = 1 THEN c[1] ELSE Absent]
       /\ last = [NoCall EXCEPT !.op = c[2], !.arg = c[3]]
  /\ call = Idle

Next ==
  \/ BlobHash(1)
       /\ last' = Called("Blob::hash", None, obj[1].hash, Some(Blob_hash(obj[1]).ret))
  \/ \E entry \in EntryInputs :
       TreeAddEntry(1, entry)
         /\ last' = Called("Tree::add_entry", Some(entry), obj[1].hash, None)
  \/ TreeHash(1)
       /\ last' = Called("Tree::hash", None, obj[1].hash, Some(Tree_hash(obj[1]).ret))
  \/ CommitHash(1)
       /\ last' = Called("Commit::hash", None, obj[1].hash, Some(Commit_hash(obj[1]).ret))
  \/ \E field \in CommitFields : \E value \in FieldValues(field) :
       CommitAssign(1, field, value)
         /\ last' = Called("Commit::assign", Some(field), obj[1].hash, None)

Spec == Init /\ [][Next]_vars

(***************************************************************************)
(* SpecPair: two objects of one kind, each built by a constructor that     *)
(* leaves the cache unset, then any sequence of hash and add_entry calls   *)
(* on either.  No call record is kept.                                     *)
(***************************************************************************)
PairConstructed == {c \in Constructed : c[2] # "Blob::with_hash"}

PairInit ==
  /\ \E c1 \in PairConstructed : \E c2 \in PairConstructed :
       /\ c1[1].kind = c2[1].kind
       /\ obj = [i \in 1..2 |-> IF i = 1 THEN c1[1] ELSE c2[1]]
  /\ last = NoCall
  /\ call = Idle

PairNext ==
  \E i \in 1..2 :
    \/ BlobHash(i) /\ UNCHANGED last
    \/ \E entry \in EntryInputs : TreeAddEntry(i, entry) /\ UNCHANGED last
    \/ TreeHash(i) /\ UNCHANGED last
    \/ CommitHash(i) /\ UNCHANGED last

SpecPair == PairInit /\ [][PairNext]_vars

(***************************************************************************)
(* SpecInflate: one call decompress_with_limit(data, max_size), step by    *)
(* step.  call holds the arguments, the build's overflow checking, the     *)
(* decoder's treatment of a stream cut short, the Take adapter's limit,    *)
(* the decoder's position in its output, the buffer and the result.        *)
(***************************************************************************)
Payloads == UNION {[1..n -> {0, 120}] : n \in 0..MaxData}

\* a container of x in two stored blocks
TwoBlocks(x) ==
  <<120, 1>> \o StoredBlock(SubSeq(x, 1, 1), FALSE)
  \o StoredBlock(SubSeq(x, 2, Len(x)), TRUE) \o Adler32(x)

\* the containers of x: well-formed ones, and ones with a wrong header, a
\* wrong checksum, a wrong NLEN, a reserved block type, no trailer, no end
ContainersOf(x) ==
  LET c == ZlibStored(x)
  IN  {c,
       [c EXCEPT ![1] = 110],
       [c EXCEPT ![Len(c)] = (c[Len(c)] + 1) % 256],
       [c EXCEPT ![6] = (c[6] + 1) % 256],
       [c EXCEPT ![3] = 7],
       SubSeq(c, 1, Len(c) - 4),
       SubSeq(c, 1, Len(c) - 5)}
      \cup (IF Len(x) >= 1 THEN {TwoBlocks(x)} ELSE {})

Containers == UNION {ContainersOf(x) : x \in Payloads}

InflateInit ==
  /\ obj = [i \in 1..2 |-> Absent]
  /\ last = NoCall
  /\ \E data \in Containers : \E max_size \in 0..UsizeMax :
     \E overflow_checks \in BOOLEAN : \E strict \in BOOLEAN :
       call = [pc |-> "start", data |-> data, max_size |-> max_size,
               overflow_checks |-> overflow_checks, strict |-> strict,
               limit |-> 0, pos |-> 0, decompressed |-> <<>>, result |-> None]

Remaining == Len(ZlibDecoder(call.data).out) - call.pos

\* decoder.take((max_size + 1) as u64)
Take ==
  /\ call.pc = "start"
  /\ LET limit == LimitPlusOne(call.max_size, call.overflow_checks)
     IN  call' = IF limit.tag = "Panic"
                 THEN [call EXCEPT !.pc = "done", !.result = Some(Panic)]
                 ELSE [call EXCEPT !.pc = "read", !.limit = limit.value]
  /\ UNCHANGED <<obj, last>>

\* read_to_end: one read that returns bytes
ReadSome ==
  /\ call.pc = "read"
  /\ call.limit > 0
  /\ Remaining > 0
  /\ \E n \in TakeRead(call.limit, Remaining) :
       call' = [call EXCEPT
                  !.decompressed = @ \o SubSeq(ZlibDecoder(call.data).out,
                                               call.pos + 1, call.pos + n),
                  !.pos = @ + n,
                  !.limit = @ - n]
  /\ UNCHANGED <<obj, last>>

\* read_to_end: the last read.  Take returns 0 with its limit used up and
\* asks the decoder otherwise, which ends the stream or fails
ReadEnd ==
  /\ call.pc = "read"
  /\ call.limit = 0 \/ Remaining = 0
  /\ LET ended == IF call.limit = 0 THEN Ok(0)
                  ELSE EndOfStream(ZlibDecoder(call.data).end, call.strict)
     IN  call' = IF ended.tag = "Err"
                 THEN [call EXCEPT !.pc = "done", !.result = Some(ended)]
                 ELSE [call EXCEPT !.pc = "check"]
  /\ UNCHANGED <<obj, last>>

\* if decompressed.len() > max_size { Err } else { Ok(decompressed) }
Check ==
  /\ call.pc = "check"
  /\ call' = [call EXCEPT
                !.pc = "done",
                !.result = Some(LimitCheck(call.decompressed, call.max_size))]
  /\ UNCHANGED <<obj, last>>

InflateNext == Take \/ ReadSome \/ ReadEnd \/ Check

SpecInflate == InflateInit /\ [][InflateNext]_vars

(***************************************************************************)
(* SpecCalls: one call of a function that keeps no state between calls:   *)
(* compress, compress_with_level (each followed, or not, by decompress of  *)
(* what it returned), decompress of bytes from elsewhere,                  *)
(* compression_ratio, RepositoryName::new.  call is the call with its      *)
(* arguments and result, and the decoder's treatment of a stream cut       *)
(* short; obj[1] is the RepositoryName created, if one was.                *)
(***************************************************************************)
\* the longest content given to compress
MaxPlain == 4

\* the largest size given to compression_ratio
MaxSize == 4

\* the longest of the short names given to RepositoryName::new
MaxShortName == 2

Plain == UNION {[1..n -> {0, 120, 255}] : n \in 0..MaxPlain}

Levels == {Compression_none, Compression_fast, Compression_default, Compression_best}

\* b"not valid zlib data"
STR_not_valid ==
  <<110, 111, 116, 32, 118, 97, 108, 105, 100, 32,
    122, 108, 105, 98, 32, 100, 97, 116, 97>>

\* a container with a wrong header, a wrong checksum, no trailer, no last
\* byte, no second byte
Damaged(c) ==
  {[c EXCEPT ![1] = 110],
   [c EXCEPT ![Len(c)] = (c[Len(c)] + 1) % 256],
   SubSeq(c, 1, Len(c) - 4),
   SubSeq(c, 1, Len(c) - 1),
   SubSeq(c, 1, 1)}

Received ==
  Containers
  \cup UNION {Damaged(compress_with_level(x, level).value) :
                x \in Payloads, level \in {Compression_none, Compression_default}}
  \cup {<<>>, STR_not_valid}

Repeat(b, n) == [i \in 1..n |-> b]

\* '-', '/', '0', '9', ':', '@', 'A', 'Z', '[', '_', '`', 'a', 'z', '{', ' '
NameBytes == {45, 47, 48, 57, 58, 64, 65, 90, 91, 95, 96, 97, 122, 123, 32}

\* short names, "é", and names of 99 to 101 bytes
Names ==
  UNION {[1..n -> NameBytes] : n \in 0..MaxShortName}
  \cup {<<195, 169>>}
  \cup {Repeat(97, n) : n \in 99..101}
  \cup {Repeat(95, 99) \o <<33>>, Repeat(45, 100), Repeat(48, 100) \o <<33>>}

CallsInit ==
  /\ obj = [i \in 1..2 |-> Absent]
  /\ last = NoCall
  /\ \E strict \in BOOLEAN : call = [op |-> "none", strict |-> strict]

Compress(data) ==
  /\ call.op = "none"
  /\ call' = [op |-> "compress", strict |-> call.strict, data |-> data,
              level |-> default_compression, result |-> compress(data)]
  /\ UNCHANGED <<obj, last>>

CompressWithLevel(data, level) ==
  /\ call.op = "none"
  /\ call' = [op |-> "compress_with_level", strict |-> call.strict, data |-> data,
              level |-> level, result |-> compress_with_level(data, level)]
  /\ UNCHANGED <<obj, last>>

\* decompress(&compressed) of what the last compression returned
DecompressOutput ==
  /\ call.op \in {"compress", "compress_with_level"}
  /\ call.result.tag = "Ok"
  /\ call' = [op |-> "decompress", strict |-> call.strict,
              data |-> call.result.value, plain |-> Some(call.data),
              level |-> call.level,
              result |-> decompress(call.result.value, call.strict)]
  /\ UNCHANGED <<obj, last>>

\* decompress of bytes from elsewhere
Decompress(data) ==
  /\ call.op = "none"
  /\ call' = [op |-> "decompress", strict |-> call.strict, data |-> data,
              plain |-> None, level |-> 0,
              result |-> decompress(data, call.strict)]
  /\ UNCHANGED <<obj, last>>

CompressionRatio(original_size, compressed_size) ==
  /\ call.op = "none"
  /\ call' = [op |-> "compression_ratio", strict |-> call.strict,
              original_size |-> original_size, compressed_size |-> compressed_size,
              result |-> compression_ratio(original_size, compressed_size)]
  /\ UNCHANGED <<obj, last>>

\* RepositoryName::new(name): the value exists only if new returned Ok
RepositoryNameNew(name) ==
  LET result == RepositoryName_new(name)
  IN  /\ call.op = "none"
      /\ call' = [op |-> "RepositoryName::new", strict |-> call.strict,
                  name |-> name, result |-> result]
      /\ obj' = IF result.tag = "Ok" THEN [obj EXCEPT ![1] = result.value] ELSE obj
      /\ UNCHANGED last

CallsNext ==
  \/ \E data \in Plain : Compress(data)
  \/ \E data \in Plain : \E level \in Levels : CompressWithLevel(data, level)
  \/ DecompressOutput
  \/ \E data \in Received : Decompress(data)
  \/ \E original_size \in 0..MaxSize : \E compressed_size \in 0..MaxSize :
       CompressionRatio(original_size, compressed_size)
  \/ \E name \in Names : RepositoryNameNew(name)

SpecCalls == CallsInit /\ [][CallsNext]_vars

(***************************************************************************)
(* SpecHashFile: one call of hash_file(path) or verify_file(path,          *)
(* expected_hash), read by read, or of verify(data, expected_hash) on the  *)
(* same bytes.  call holds the function called, the file (whether it       *)
(* opens, its content), the text expected, the position in the file, the   *)
(* read buffer, the hasher, the sizes the reads returned, the I/O error    *)
(* the system raised (fault) and the result.                               *)
(***************************************************************************)
\* the longest file
MaxFile == 3

\* file contents over "h", "i"
FileContents == UNION {[1..n -> {104, 105}] : n \in 0..MaxFile}

\* str::to_uppercase on ASCII text, as the caller of the test applies it
to_uppercase(s) ==
  [i \in 1..Len(s) |-> IF s[i] \in 97..122 THEN s[i] - 32 ELSE s[i]]

\* the texts a caller expects for content: its digest, the digest in upper
\* case, in mixed case, the digest of other content, a digest cut short, ""
ExpectedOf(content) ==
  LET h == hash_bytes(content)
  IN  {h, to_uppercase(h),
       [i \in 1..Len(h) |-> IF i % 2 = 1 THEN to_uppercase(h)[i] ELSE h[i]],
       hash_bytes(content \o <<104>>),
       SubSeq(h, 1, Len(h) - 1),
       <<>>}

\* the kinds of error a read may fail with
ReadErrors == {"Interrupted", "Other"}

\* what the function called returns, given what hash_file returns
Returned(op, hashed, expected_hash) ==
  IF op = "verify_file" THEN verify_file_result(hashed, expected_hash) ELSE hashed

HashFileInit ==
  /\ obj = [i \in 1..2 |-> Absent]
  /\ last = NoCall
  /\ \E op \in {"hash_file", "verify_file", "verify"} :
     \E exists \in BOOLEAN : \E content \in FileContents :
     \E expected \in ExpectedOf(content) :
       /\ op = "verify" => exists
       /\ op = "hash_file" => expected = <<>>
       /\ call = [pc |-> "start", op |-> op, exists |-> exists,
                  content |-> content, expected |-> expected, offset |-> 0,
                  buffer |-> [i \in 1..BUFFER_SIZE |-> 0], hasher |-> <<>>,
                  sizes |-> <<>>, fault |-> None, result |-> None]

\* Hasher::verify(data, expected_hash) on the bytes of the file
Verify ==
  /\ call.pc = "start"
  /\ call.op = "verify"
  /\ call' = [call EXCEPT !.pc = "done",
                          !.result = Some(verify(call.content, call.expected))]
  /\ UNCHANGED <<obj, last>>

\* let file = File::open(path)?;
Open ==
  /\ call.pc = "start"
  /\ call.op \in {"hash_file", "verify_file"}
  /\ call' = IF call.exists
             THEN [call EXCEPT !.pc = "loop"]
             ELSE LET e == Err("NotFound", "open")
                  IN  [call EXCEPT !.pc = "done", !.fault = Some(e),
                                   !.result = Some(Returned(call.op, e, call.expected))]
  /\ UNCHANGED <<obj, last>>

\* reader.read(&mut buffer)? returned n > 0 bytes; hasher.update(&buffer[..n])
ReadChunk ==
  /\ call.pc = "loop"
  /\ call.offset < Len(call.content)
  /\ \E n \in 1..BUFFER_SIZE :
       /\ call.offset + n <= Len(call.content)
       /\ LET bytes  == SubSeq(call.content, call.offset + 1, call.offset + n)
              buffer == ReadInto(call.buffer, bytes)
          IN  call' = [call EXCEPT !.buffer = buffer,
                                   !.hasher = HasherUpdate(@, buffer, n),
                                   !.offset = @ + n,
                                   !.sizes = Append(@, n)]
  /\ UNCHANGED <<obj, last>>

\* reader.read(&mut buffer)? failed: the error is returned
ReadFail ==
  /\ call.pc = "loop"
  /\ \E kind \in ReadErrors :
       LET e == Err(kind, "read")
       IN  call' = [call EXCEPT !.pc = "done", !.fault = Some(e),
                                !.result = Some(Returned(call.op, e, call.expected))]
  /\ UNCHANGED <<obj, last>>

\* reader.read(&mut buffer)? returned 0 at the end of the file: break,
\* finalize, Ok(hex::encode(result))
ReadEof ==
  /\ call.pc = "loop"
  /\ call.offset = Len(call.content)
  /\ call' = [call EXCEPT
                !.pc = "done",
                !.sizes = Append(@, 0),
                !.result = Some(Returned(call.op, Ok(HasherFinalize(call.hasher)),
                                         call.expected))]
  /\ UNCHANGED <<obj, last>>

HashFileNext == Verify \/ Open \/ ReadChunk \/ ReadFail \/ ReadEof

SpecHashFile == HashFileInit /\ [][HashFileNext]_vars

(***************************************************************************)
(* SpecThreads: two threads, each making one call of hash_bytes, hash_str, *)
(* hash_file or verify on an input of its own, through the Hasher obj[1]   *)
(* or obj[2], their steps interleaved in any order.  call[t] is the call   *)
(* of thread t: the method, the Hasher used, the input, the text expected, *)
(* the locals (the Sha256, the read buffer, the position in the file) and  *)
(* the result.  last[t] tells whether the other thread took a step while   *)
(* the call of t was under way.                                            *)
(***************************************************************************)
\* the longest input of a thread
MaxInput == 2

Threads == {1, 2}

\* thread 1 hashes "", "h", "hh", ..; thread 2 hashes "", "i", "ii", ..
InputsOf(t) == {[i \in 1..n |-> 103 + t] : n \in 0..MaxInput}

\* the texts a verify call expects: the digest in upper case, another digest
ThreadExpects(op, data) ==
  IF op = "verify"
  THEN {to_uppercase(hash_bytes(data)), hash_bytes(data \o <<104>>)}
  ELSE {<<>>}

ThreadCalls(t) ==
  UNION {
    {[pc |-> "start", op |-> op, via |-> via, data |-> data, expected |-> expected,
      hasher |-> <<>>, buffer |-> [i \in 1..BUFFER_SIZE |-> 0], offset |-> 0,
      result |-> None] :
       via \in (IF t = 1 THEN {1} ELSE {1, 2}),
       expected \in ThreadExpects(op, data)} :
    op \in {"hash_bytes", "hash_str", "hash_file", "verify"},
    data \in InputsOf(t)}

ThreadsInit ==
  /\ obj = [i \in 1..2 |-> Hasher_new]
  /\ last = [t \in Threads |-> FALSE]
  /\ \E c1 \in ThreadCalls(1) : \E c2 \in ThreadCalls(2) :
       /\ call = [t \in Threads |-> IF t = 1 THEN c1 ELSE c2]

\* what a step of thread t leaves of the record of overlaps
Overlap(t) ==
  [u \in Threads |-> last[u] \/ (u # t /\ call[u].pc \notin {"start", "done"})]

\* let mut hasher = Sha256::new(); hash_file opens its file first
ThreadNew(t) ==
  /\ call[t].pc = "start"
  /\ call' = [call EXCEPT ![t].pc = IF call[t].op = "hash_file" THEN "loop" ELSE "update",
                          ![t].hasher = <<>>]
  /\ last' = Overlap(t)
  /\ UNCHANGED obj

\* hasher.update(data)
ThreadUpdate(t) ==
  /\ call[t].pc = "update"
  /\ LET u == Sha256_update(obj[call[t].via], call[t].hasher, call[t].data)
     IN  /\ call' = [call EXCEPT ![t].pc = "finalize", ![t].hasher = u.hasher]
         /\ obj' = [obj EXCEPT ![call[t].via] = u.self]
  /\ last' = Overlap(t)

\* one turn of the loop of hash_file: a read of n > 0 bytes and the update
ThreadRead(t) ==
  /\ call[t].pc = "loop"
  /\ \E n \in 1..BUFFER_SIZE :
       /\ call[t].offset + n <= Len(call[t].data)
       /\ LET bytes  == SubSeq(call[t].data, call[t].offset + 1, call[t].offset + n)
              buffer == ReadInto(call[t].buffer, bytes)
              u      == Sha256_update(obj[call[t].via], call[t].hasher,
                                      SubSeq(buffer, 1, n))
          IN  /\ call' = [call EXCEPT ![t].buffer = buffer,
                                      ![t].hasher = u.hasher,
                                      ![t].offset = @ + n]
              /\ obj' = [obj EXCEPT ![call[t].via] = u.self]
  /\ last' = Overlap(t)

\* the read of 0 bytes at the end of the file: break
ThreadReadEof(t) ==
  /\ call[t].pc = "loop"
  /\ call[t].offset = Len(call[t].data)
  /\ call' = [call EXCEPT ![t].pc = "finalize"]
  /\ last' = Overlap(t)
  /\ UNCHANGED obj

\* hasher.finalize(), hex::encode, and what the method makes of the digest
ThreadFinalize(t) ==
  /\ call[t].pc = "finalize"
  /\ LET digest == HasherFinalize(call[t].hasher)
     IN  call' = [call EXCEPT
                    ![t].pc = "done",
                    ![t].result =
                      CASE call[t].op = "verify" ->
                             Some(digest = to_lowercase(call[t].expected))
                        [] call[t].op = "hash_file" -> Some(Ok(digest))
                        [] OTHER -> Some(digest)]
  /\ last' = Overlap(t)
  /\ UNCHANGED obj

ThreadsNext ==
  \E t \in Threads :
    \/ ThreadNew(t)
    \/ ThreadUpdate(t)
    \/ ThreadRead(t)
    \/ ThreadReadEof(t)
    \/ ThreadFinalize(t)

SpecThreads == ThreadsInit /\ [][ThreadsNext]_vars

(***************************************************************************)
(* SpecBuild: one list of entries built into a Tree twice: slot 1 by       *)
(* Tree::with_entries(es), slot 2 by Tree::new() and add_entry of each     *)
(* element in list order; hash on either and find on slot 2 at any time.   *)
(* last holds the list, how many of its elements slot 2 has been given,    *)
(* and the most recent find on slot 2 since the last add_entry.            *)
(***************************************************************************)
\* the names of the entries, and "c", the name of none
FindNames == {e.name : e \in EntryInputs} \cup {<<99>>}

BuildInit ==
  /\ \E es \in EntryLists :
       /\ obj = [i \in 1..2 |-> IF i = 1 THEN Tree_with_entries(es) ELSE Tree_new]
       /\ last = [es |-> es, n |-> 0, find |-> None]
  /\ call = Idle

BuildAdd ==
  /\ last.n < Len(last.es)
  /\ TreeAddEntry(2, last.es[last.n + 1])
  /\ last' = [last EXCEPT !.n = @ + 1, !.find = None]

BuildFind(name) ==
  /\ last' = [last EXCEPT !.find = Some([name |-> name, ret |-> Tree_find(obj[2], name)])]
  /\ UNCHANGED <<obj, call>>

BuildNext ==
  \/ BuildAdd
  \/ \E name \in FindNames : BuildFind(name)
  \/ \E i \in 1..2 : TreeHash(i) /\ UNCHANGED last

SpecBuild == BuildInit /\ [][BuildNext]_vars

(***************************************************************************)
(* SpecRetype: one list of entries and the same list with other values in  *)
(* the public field object_type of its entries, each given to              *)
(* Tree::with_entries; then hash on either.                                *)
(***************************************************************************)
ObjectTypes == {"Blob", "Tree", "Commit"}

\* the lists that differ from es in object_type at most
Retyped(es) ==
  {[j \in 1..Len(es) |-> [es[j] EXCEPT !.object_type = types[j]]] :
     types \in [1..Len(es) -> ObjectTypes]}

RetypeInit ==
  /\ \E es \in EntryLists : \E rs \in Retyped(es) :
       obj = [i \in 1..2 |-> Tree_with_entries(IF i = 1 THEN es ELSE rs)]
  /\ last = NoCall
  /\ call = Idle

RetypeNext == \E i \in 1..2 : TreeHash(i) /\ UNCHANGED last

SpecRetype == RetypeInit /\ [][RetypeNext]_vars

(***************************************************************************)
(* SpecVectors: one call of hash_bytes with SHA-256 computed as FIPS 180-4 *)
(* defines it, step by step: padding, then per block the message schedule, *)
(* the 64 rounds and the addition to the hash value, then hex::encode.     *)
(* call holds the input, the padded message, the block at work, the hash   *)
(* value h, the schedule w, the working variables v, the round t and the   *)
(* result.                                                                 *)
(***************************************************************************)
\* the byte strings the tests of hash.rs hash: "", "hello world", "hello",
\* "test data", "different data", "test", "deterministic", "input1", "input2"
Hashed ==
  {<<>>,
   <<104, 101, 108, 108, 111, 32, 119, 111, 114, 108, 100>>,
   <<104, 101, 108, 108, 111>>,
   <<116, 101, 115, 116, 32, 100, 97, 116, 97>>,
   <<100, 105, 102, 102, 101, 114, 101, 110, 116, 32, 100, 97, 116, 97>>,
   <<116, 101, 115, 116>>,
   <<100, 101, 116, 101, 114, 109, 105, 110, 105, 115, 116, 105, 99>>,
   <<105, 110, 112, 117, 116, 49>>,
   <<105, 110, 112, 117, 116, 50>>}

VectorsInit ==
  /\ obj = [i \in 1..2 |-> Absent]
  /\ last = NoCall
  /\ \E data \in Hashed :
       call = [pc |-> "start", data |-> data, m |-> <<>>, block |-> 0,
               h |-> <<>>, w |-> <<>>, v |-> <<>>, t |-> 0, result |-> None]

\* Sha256::new() and the padding of the input
Pad ==
  /\ call.pc = "start"
  /\ call' = [call EXCEPT
                !.pc = "load",
                !.m = Sha256_pad(call.data),
                !.h = [j \in 1..8 |-> Word(Sha256_H0[j][1], Sha256_H0[j][2])]]
  /\ UNCHANGED <<obj, last>>

\* the 16 words of the block, and the working variables
Load ==
  /\ call.pc = "load"
  /\ call' = [call EXCEPT
                !.pc = "schedule",
                !.w = [j \in 1..16 |-> BlockWord(call.m, call.block, j - 1)],
                !.v = call.h,
                !.t = 0]
  /\ UNCHANGED <<obj, last>>

Extend ==
  /\ call.pc = "schedule"
  /\ call' = [call EXCEPT
                !.w = Append(@, ScheduleWord(call.w)),
                !.pc = IF Len(call.w) + 1 = 64 THEN "rounds" ELSE "schedule"]
  /\ UNCHANGED <<obj, last>>

Round ==
  /\ call.pc = "rounds"
  /\ LET k == Word(Sha256_K[call.t + 1][1], Sha256_K[call.t + 1][2])
     IN  call' = [call EXCEPT
                    !.v = Sha256_round(@, k, call.w[call.t + 1]),
                    !.t = @ + 1,
                    !.pc = IF call.t + 1 = 64 THEN "add" ELSE "rounds"]
  /\ UNCHANGED <<obj, last>>

AddBlock ==
  /\ call.pc = "add"
  /\ call' = [call EXCEPT
                !.h = [j \in 1..8 |-> WrappingSum(<<call.h[j], call.v[j]>>)],
                !.block = @ + 1,
                !.pc = IF 64 * (call.block + 1) < Len(call.m) THEN "load" ELSE "encode"]
  /\ UNCHANGED <<obj, last>>

\* hex::encode(hasher.finalize())
Encode ==
  /\ call.pc = "encode"
  /\ call' = [call EXCEPT !.pc = "done",
                          !.result = Some(hex_encode(DigestBytes(call.h)))]
  /\ UNCHANGED <<obj, last>>

VectorsNext == Pad \/ Load \/ Extend \/ Round \/ AddBlock \/ Encode

SpecVectors == VectorsInit /\ [][VectorsNext]_vars

(***************************************************************************)
(* What the claims speak of, stated apart from the code's own operators.   *)
(***************************************************************************)
HashOps == {"Blob::hash", "Tree::hash", "Commit::hash"}

\* a <= b in byte-lexicographic order
NameLeq(a, b) ==
  \E k \in 0..Len(a) :
    /\ k <= Len(b)
    /\ \A j \in 1..k : a[j] = b[j]
    /\ \/ k = Len(a)
       \/ k < Len(b) /\ a[k + 1] < b[k + 1]

SortedByName(entries) ==
  \A j \in 1..(Len(entries) - 1) : NameLeq(entries[j].name, entries[j + 1].name)

\* the decimal text of n < 1000
DecimalText(n) ==
  IF n < 10 THEN <<48 + n>>
  ELSE IF n < 100 THEN <<48 + (n \div 10), 48 + (n % 10)>>
  ELSE <<48 + (n \div 100), 48 + ((n \div 10) % 10), 48 + (n % 10)>>

TypeName(kind) ==
  CASE kind = "Blob"   -> <<98, 108, 111, 98>>
    [] kind = "Tree"   -> <<116, 114, 101, 101>>
    [] kind = "Commit" -> <<99, 111, 109, 109, 105, 116>>

RECURSIVE EntryLines(_, _)
EntryLines(entries, n) ==
  IF n = 0 THEN <<>>
  ELSE EntryLines(entries, n - 1)
       \o entries[n].mode \o <<32>> \o entries[n].name \o <<0>> \o entries[n].hash

Payload(o) ==
  CASE o.kind = "Blob"   -> o.content
    [] o.kind = "Tree"   -> EntryLines(o.entries, Len(o.entries))
    [] o.kind = "Commit" ->
         <<116, 114, 101, 101, 32>> \o o.tree_hash
         \o <<10, 112, 97, 114, 101, 110, 116, 32>>
         \o (IF o.parent_hash = None THEN <<>> ELSE o.parent_hash[1])
         \o <<10, 97, 117, 116, 104, 111, 114, 32>> \o o.author_name
         \o <<32, 60>> \o o.author_email \o <<62>>
         \o <<10, 100, 97, 116, 101, 32>> \o o.timestamp
         \o <<10, 10>> \o o.message

\* "<type-name> <payload-length>\0" + payload
CanonicalEncoding(o) ==
  TypeName(o.kind) \o <<32>> \o DecimalText(Len(Payload(o))) \o <<0>> \o Payload(o)

Digest(o) == hash_bytes(CanonicalEncoding(o))

Count(entries, e) == Cardinality({j \in 1..Len(entries) : entries[j] = e})

\* two entry lists are orderings of one collection
SameCollection(s, t) ==
  /\ Len(s) = Len(t)
  /\ \A e \in EntryInputs : Count(s, e) = Count(t, e)

(***************************************************************************)
(* C1: in every state reached by Tree::new or Tree::with_entries and any   *)
(* sequence of add_entry and hash calls, entries() is in non-decreasing    *)
(* byte-lexicographic order of entry name.                                 *)
(***************************************************************************)
C1_EntriesSorted ==
  \A i \in 1..2 : obj[i].kind = "Tree" => SortedByName(Tree_entries(obj[i]))

\* add_entry has put its entry in front of two entries added before it
C1_Witness ==
  /\ obj[1].kind = "Tree"
  /\ last.op = "Tree::add_entry"
  /\ last.prior.op = "Tree::add_entry"
  /\ Len(obj[1].entries) >= 3
  /\ obj[1].entries[1] = last.arg[1]
  /\ obj[1].entries[1].name # obj[1].entries[2].name

(***************************************************************************)
(* C2: for every collection of tree entries (names need not be distinct)   *)
(* and every two orderings of it, the Trees built from the two orderings,  *)
(* by with_entries or by add_entry one entry at a time, have the same      *)
(* entries() sequence and the same hash().  A Tree holds exactly the       *)
(* entries it was given (with_entries and add_entry only reorder), so two  *)
(* Trees come from two orderings of one collection exactly when their      *)
(* entry lists are permutations of each other.                             *)
(***************************************************************************)
C2_OrderIndependent ==
  (/\ obj[1].kind = "Tree"
   /\ obj[2].kind = "Tree"
   /\ SameCollection(obj[1].entries, obj[2].entries))
  => /\ Tree_entries(obj[1]) = Tree_entries(obj[2])
     /\ Tree_hash(obj[1]).ret = Tree_hash(obj[2]).ret

(***************************************************************************)
(* C3: for Blob, Tree and Commit, in every state reachable through the     *)
(* public interface (every constructor, Blob::with_hash included,          *)
(* add_entry, hash(), assignment to Commit's public fields), a cached      *)
(* digest that is present equals the digest of the canonical encoding of   *)
(* the entity's current content.                                           *)
(***************************************************************************)
C3_CacheConsistent ==
  \A i \in 1..2 :
    (obj[i].kind # "Absent" /\ obj[i].hash # None)
    => obj[i].hash[1] = Digest(obj[i])

(***************************************************************************)
(* C4: if hash() has been called on a Tree and add_entry(e) is called      *)
(* afterwards, the cache is Unset right after add_entry, and the next      *)
(* hash() returns the digest of the enlarged entry list, which differs     *)
(* from the digest returned before the insertion.                          *)
(***************************************************************************)
C4_Invalidation ==
  /\ (last.op = "Tree::add_entry" /\ last.pre # None)
     => /\ obj[1].hash = None
        /\ \E j \in 1..Len(obj[1].entries) : obj[1].entries[j] = last.arg[1]
  /\ (last.op = "Tree::hash" /\ last.prior.op = "Tree::add_entry"
      /\ last.prior.pre # None)
     => /\ \E j \in 1..Len(obj[1].entries) : obj[1].entries[j] = last.prior.arg[1]
        /\ last.ret[1] = Digest(obj[1])
        /\ last.ret[1] # last.prior.pre[1]

\* hash(), add_entry, hash() have been called in this order
C4_Witness ==
  /\ last.op = "Tree::hash"
  /\ last.prior.op = "Tree::add_entry"
  /\ last.prior.pre # None
  /\ Len(obj[1].entries) >= 2
  /\ obj[1].hash = last.ret

(***************************************************************************)
(* C5: the digest cache follows Unset -> Computed(value).  The             *)
(* constructors Blob::new, Tree::new, Tree::with_entries, Commit::new and  *)
(* Commit::initial start in Unset; hash() in Unset moves to Computed and   *)
(* returns the value; hash() in Computed returns the stored value and      *)
(* changes nothing; the only step from Computed back to Unset is           *)
(* Tree::add_entry, so a Blob's or Commit's Computed cache is never Unset  *)
(* again.                                                                  *)
(***************************************************************************)
C5_StartsUnset ==
  last.op \in {"Blob::new", "Tree::new", "Tree::with_entries",
               "Commit::new", "Commit::initial"}
  => obj[1].hash = None

C5_HashFromUnset ==
  (last.op \in HashOps /\ last.pre = None)
  => obj[1].hash # None /\ obj[1].hash = last.ret

C5_HashWhenComputed ==
  (last'.op \in HashOps /\ obj[1].hash # None)
  => obj' = obj /\ last'.ret = obj[1].hash

C5_OnlyAddEntryUnsets ==
  (obj[1].hash # None /\ obj'[1].hash = None)
  => obj[1].kind = "Tree" /\ last'.op = "Tree::add_entry"

C5_CacheStateMachine ==
  /\ [](C5_StartsUnset /\ C5_HashFromUnset)
  /\ [][C5_HashWhenComputed /\ C5_OnlyAddEntryUnsets]_vars

\* a Commit's hash() has moved the cache from Unset to Computed, and a field
\* has been assigned since: the cache is still Computed
C5_Witness ==
  /\ obj[1].kind = "Commit"
  /\ last.op = "Commit::assign"
  /\ last.prior.op = "Commit::hash"
  /\ last.prior.pre = None
  /\ obj[1].hash = last.prior.ret

(***************************************************************************)
(* C6: the value hash() computes from an Unset cache is hash_bytes of      *)
(* "<type-name> <n>\0" followed by the payload, n the decimal byte length  *)
(* of the payload: for Blob the raw content; for Tree, per entry in sorted *)
(* order, "<mode> <name>\0" and the entry's digest as hex text; for Commit *)
(* the text "tree T\nparent P-or-empty\nauthor N <E>\ndate D\n\nM".        *)
(***************************************************************************)
C6_CanonicalDigest ==
  (last.op \in HashOps /\ last.pre = None)
  => /\ last.ret[1] = hash_bytes(CanonicalEncoding(obj[1]))
     /\ obj[1].kind = "Tree" => SortedByName(obj[1].entries)

\* a Tree of three entries, the last one added in front, has been hashed
C6_Witness ==
  /\ last.op = "Tree::hash"
  /\ last.pre = None
  /\ last.prior.op = "Tree::add_entry"
  /\ Len(obj[1].entries) >= 3
  /\ obj[1].entries[1] = last.prior.arg[1]

(***************************************************************************)
(* C7: for two Blobs built independently with Blob::new, hash() returns    *)
(* equal digests when the contents are equal and different digests when    *)
(* they differ.                                                            *)
(***************************************************************************)
C7_BlobDigestByContent ==
  (/\ obj[1].kind = "Blob" /\ obj[2].kind = "Blob"
   /\ obj[1].hash # None /\ obj[2].hash # None)
  => (obj[1].hash = obj[2].hash <=> obj[1].content = obj[2].content)

\* two Blobs of equal, non-empty content have both been hashed
C7_Witness ==
  /\ obj[1].kind = "Blob" /\ obj[2].kind = "Blob"
  /\ obj[1].hash # None /\ obj[2].hash # None
  /\ obj[1].content = obj[2].content
  /\ Len(obj[1].content) = 2

(***************************************************************************)
(* C8: for compressed data whose true decompressed size is S and for every *)
(* max_size L of the machine-word type, its maximum included,              *)
(* decompress_with_limit(data, L) succeeds when L >= S and fails with the  *)
(* size-limit error when L < S.                                            *)
(***************************************************************************)
C8_BoundEnforced ==
  (call.pc = "done" /\ ZlibDecoder(call.data).end = "eof")
  => LET S == Len(ZlibDecoder(call.data).out)
         L == call.max_size
     IN  /\ L >= S => call.result[1].tag = "Ok"
         /\ L < S => call.result[1] = Err("InvalidData", "exceeds limit")

(***************************************************************************)
(* C9: decompress_with_limit agrees with decompress on every input that    *)
(* decompress rejects or expands to at most max_size bytes: when           *)
(* decompress(data) is Ok(bytes) with bytes.len() <= max_size,             *)
(* decompress_with_limit(data, max_size) is Ok of the same bytes; when     *)
(* decompress(data) fails, decompress_with_limit(data, max_size) fails too *)
(* and never returns Ok.                                                   *)
(***************************************************************************)
C9_AgreesWithDecompress ==
  call.pc = "done"
  => LET plain == decompress(call.data, call.strict)
     IN  /\ (plain.tag = "Ok" /\ Len(plain.value) <= call.max_size)
            => call.result[1] = plain
         /\ plain.tag = "Err" => call.result[1].tag = "Err"

(***************************************************************************)
(* C10: at every step of decompress_with_limit(data, max_size) the output  *)
(* buffer holds at most max_size + 1 bytes, whatever the true decompressed *)
(* size of data is.                                                        *)
(***************************************************************************)
C10_BufferBounded ==
  call.pc # "idle" => Len(call.decompressed) <= call.max_size + 1

\* the reads stopped at max_size + 1 bytes with more of the content to come
C10_Witness ==
  /\ call.pc = "check"
  /\ Len(call.decompressed) = call.max_size + 1
  /\ Len(ZlibDecoder(call.data).out) > call.max_size + 1

(***************************************************************************)
(* C11: the error decompress_with_limit returns when the output exceeds    *)
(* max_size has a kind different from the kind returned for corrupt data   *)
(* (malformed header, checksum mismatch), so a caller can tell oversized   *)
(* input from malformed input by the kind alone: an oversized result never *)
(* has the kind decompress gives any corrupt container, and a failure that *)
(* is not oversized never has the kind of the size-limit error.            *)
(***************************************************************************)
CorruptKinds(strict) ==
  {decompress(d, strict).kind : d \in {c \in Containers : ZlibDecoder(c).end = "corrupt"}}

C11_KindsDistinct ==
  (call.pc = "done" /\ call.result[1].tag = "Err")
  => IF Len(call.decompressed) > call.max_size
     THEN call.result[1].kind \notin CorruptKinds(call.strict)
     ELSE /\ ZlibDecoder(call.data).end # "eof"
          /\ call.result[1].kind # "InvalidData"
          /\ ZlibDecoder(call.data).end = "corrupt"
             => call.result[1].kind \in CorruptKinds(call.strict)

\* the call failed on output larger than max_size, on a container whose
\* checksum is wrong as well
C11_Witness ==
  /\ call.pc = "done"
  /\ call.result[1].tag = "Err"
  /\ Len(call.decompressed) > call.max_size
  /\ ZlibDecoder(call.data).end = "corrupt"

(***************************************************************************)
(* C12: for every byte sequence X and every compression level (none, fast, *)
(* default, best), decompress(compress_with_level(X, level)) returns Ok    *)
(* and equals X; compress(X) is compress_with_level(X, level 6).           *)
(***************************************************************************)
C12_RoundTrip ==
  /\ (call.op = "decompress" /\ call.plain # None)
     => call.result = [tag |-> "Ok", value |-> call.plain[1]]
  /\ call.op = "compress"
     => call.result = compress_with_level(call.data, 6)

\* four equal bytes, compressed at the best level into a literal and a
\* match, have been decompressed
C12_Witness ==
  /\ call.op = "decompress"
  /\ call.plain = Some(Repeat(120, 4))
  /\ call.level = Compression_best
  /\ Len(call.data) < Len(ZlibStored(Repeat(120, 4)))
  /\ call.result.tag = "Ok"

(***************************************************************************)
(* C13: decompress applied to a byte sequence that is not a valid          *)
(* container (malformed header, truncated stream, trailing checksum that   *)
(* does not match the content) returns an error of the corrupt-data kind,  *)
(* which is not the kind of the size-limit error; it never returns Ok with *)
(* data and never panics.                                                  *)
(***************************************************************************)
C13_CorruptRejected ==
  (call.op = "decompress" /\ ZlibDecoder(call.data).end # "eof")
  => /\ call.result.tag = "Err"
     /\ call.result.kind # "InvalidData"

(***************************************************************************)
(* C14: for all original_size and compressed_size (compressed_size may be  *)
(* larger than original_size), compression_ratio returns a fraction in     *)
(* [0,1] equal to 1 - compressed_size/original_size, and returns 0 when    *)
(* original_size = 0.                                                      *)
(***************************************************************************)
C14_RatioInUnitInterval ==
  call.op = "compression_ratio"
  => LET r == call.result
     IN  /\ r.den > 0
         /\ 0 <= r.num /\ r.num <= r.den
         /\ call.original_size = 0 => r.num = 0
         /\ call.original_size > 0
            => r.num * call.original_size
               = (call.original_size - call.compressed_size) * r.den

(***************************************************************************)
(* C15: Hasher::verify(data, expected) returns true exactly when expected  *)
(* equals hash_bytes(data) up to letter case (true for the digest and for  *)
(* the digest in upper case, false for the digest of other data);          *)
(* verify_file returns the same answer for a file holding the same bytes.  *)
(***************************************************************************)
Letter(c) == c \in 65..90 \/ c \in 97..122

EqualIgnoringCase(a, b) ==
  /\ Len(a) = Len(b)
  /\ \A i \in 1..Len(a) :
       \/ a[i] = b[i]
       \/ Letter(a[i]) /\ Letter(b[i]) /\ (a[i] - b[i] = 32 \/ b[i] - a[i] = 32)

C15_VerifyIgnoresCase ==
  /\ (call.pc = "done" /\ call.op = "verify")
     => (call.result[1] <=> EqualIgnoringCase(call.expected, hash_bytes(call.content)))
  /\ (call.pc = "done" /\ call.op = "verify_file" /\ call.fault = None)
     => /\ call.result[1].tag = "Ok"
        /\ call.result[1].value = verify(call.content, call.expected)
        /\ call.result[1].value
           <=> EqualIgnoringCase(call.expected, hash_bytes(call.content))

\* verify_file has read a file in three reads and answered true for its
\* digest written in upper case
C15_Witness ==
  /\ call.pc = "done"
  /\ call.op = "verify_file"
  /\ call.result[1] = [tag |-> "Ok", value |-> TRUE]
  /\ call.expected # hash_bytes(call.content)
  /\ Len(call.sizes) >= 3

(***************************************************************************)
(* C16: for every file content and every way the successive reads split it *)
(* into chunks of 1 to BUFFER_SIZE bytes (short reads included), hash_file *)
(* returns the digest hash_bytes gives the whole content, while holding no *)
(* more than one buffer of BUFFER_SIZE bytes of input at a time.           *)
(***************************************************************************)
C16_StreamEqualsWhole ==
  /\ Len(call.buffer) = BUFFER_SIZE
  /\ \A j \in 1..Len(call.sizes) : call.sizes[j] <= BUFFER_SIZE
  /\ (call.pc = "done" /\ call.op = "hash_file" /\ call.fault = None)
     => call.result[1] = [tag |-> "Ok", value |-> hash_bytes(call.content)]

\* hash_file has returned the digest of three bytes read in a short read
\* and one more read
C16_Witness ==
  /\ call.pc = "done"
  /\ call.op = "hash_file"
  /\ call.fault = None
  /\ Len(call.content) = 3
  /\ Len(call.sizes) = 3
  /\ call.sizes[1] < BUFFER_SIZE

(***************************************************************************)
(* C17: if opening the file or any read fails, hash_file returns that I/O  *)
(* error and no digest, without retrying (the call is over with the        *)
(* failure), and verify_file returns the same error rather than false; if  *)
(* no read fails, the read loop ends at the first zero-length read and     *)
(* hash_file returns Ok.                                                   *)
(***************************************************************************)
C17_ErrorsPropagate ==
  /\ call.fault # None
     => call.pc = "done" /\ call.result = call.fault
  /\ (call.pc = "done" /\ call.op \in {"hash_file", "verify_file"} /\ call.fault = None)
     => /\ call.result[1].tag = "Ok"
        /\ call.sizes # <<>>
        /\ \A j \in 1..Len(call.sizes) : (call.sizes[j] = 0 <=> j = Len(call.sizes))
  /\ (call.pc # "done" /\ call.op \in {"hash_file", "verify_file"})
     => \A j \in 1..Len(call.sizes) : call.sizes[j] > 0

\* verify_file has returned the error of a read that failed after another
\* read had returned bytes
C17_Witness ==
  /\ call.pc = "done"
  /\ call.op = "verify_file"
  /\ call.fault # None
  /\ call.result[1].tag = "Err"
  /\ call.result[1].kind = "Interrupted"
  /\ Len(call.sizes) >= 1

(***************************************************************************)
(* C18: a Commit built by Commit::initial has parent_hash = None and       *)
(* is_initial() = true; a Commit built by Commit::new with Some(p) has     *)
(* is_initial() = false and parent_hash = Some(p) unchanged; in every      *)
(* state is_initial() is true if and only if parent_hash is None, also     *)
(* after hash() has been called.                                           *)
(***************************************************************************)
C18_InitialIffNoParent ==
  /\ \A i \in 1..2 :
       obj[i].kind = "Commit"
       => (Commit_is_initial(obj[i]) <=> obj[i].parent_hash = None)
  /\ (last.op = "Commit::initial"
      \/ (last.op = "Commit::hash" /\ last.prior.op = "Commit::initial"))
     => obj[1].parent_hash = None /\ Commit_is_initial(obj[1])
  /\ (last.op = "Commit::new" /\ last.arg[1] # None)
     => ~Commit_is_initial(obj[1]) /\ obj[1].parent_hash = last.arg[1]
  /\ (last.op = "Commit::hash" /\ last.prior.op = "Commit::new"
      /\ last.prior.arg[1] # None)
     => ~Commit_is_initial(obj[1]) /\ obj[1].parent_hash = last.prior.arg[1]

\* a Commit built with the parent Some("") has been hashed: it is not initial
C18_Witness ==
  /\ last.op = "Commit::hash"
  /\ last.prior.op = "Commit::new"
  /\ last.prior.arg[1] = <<<<>>>>
  /\ obj[1].hash # None
  /\ ~Commit_is_initial(obj[1])

(***************************************************************************)
(* C19: Blob::with_hash(content, h) stores h without verification: for     *)
(* every string h, whether or not h is the digest of content,              *)
(* cached_hash() is Some(h) and hash() returns h without recomputing.      *)
(***************************************************************************)
C19_WithHashStored ==
  /\ last.op = "Blob::with_hash"
     => Blob_cached_hash(obj[1]) = <<last.arg[1]>>
  /\ (last.op = "Blob::hash" /\ last.prior.op = "Blob::with_hash")
     => /\ last.ret = <<last.prior.arg[1]>>
        /\ Blob_cached_hash(obj[1]) = <<last.prior.arg[1]>>
  /\ (last.op = "Blob::hash" /\ last.pre # None)
     => last.ret = last.pre /\ Blob_cached_hash(obj[1]) = last.pre

\* hash() has returned the digest given to with_hash, which is not the
\* digest of the content
C19_Witness ==
  /\ last.op = "Blob::hash"
  /\ last.prior.op = "Blob::with_hash"
  /\ last.ret = <<ForeignHash>>
  /\ last.ret[1] # Digest(obj[1])

(***************************************************************************)
(* C20: RepositoryName::new(name) returns Ok exactly when name is          *)
(* non-empty, at most 100 bytes long, and made only of ASCII letters,      *)
(* digits, '-' and '_'; in every other case it returns                     *)
(* AppError::InvalidInput and no RepositoryName is created; every          *)
(* RepositoryName that exists satisfies the three conditions and value()   *)
(* returns the accepted input unchanged.                                   *)
(***************************************************************************)
AllowedNameBytes == {45, 95} \cup (48..57) \cup (65..90) \cup (97..122)

ValidName(name) ==
  /\ Len(name) >= 1
  /\ Len(name) <= 100
  /\ \A i \in 1..Len(name) : name[i] \in AllowedNameBytes

C20_NameValidated ==
  /\ call.op = "RepositoryName::new"
     => IF ValidName(call.name)
        THEN /\ call.result.tag = "Ok"
             /\ RepositoryName_value(call.result.value) = call.name
             /\ obj[1] = call.result.value
        ELSE /\ call.result.tag = "Err"
             /\ call.result.kind = "InvalidInput"
             /\ obj[1] = Absent
  /\ obj[1].kind = "RepositoryName" => ValidName(RepositoryName_value(obj[1]))

\* a name of exactly 100 bytes has been accepted
C20_Witness ==
  /\ call.op = "RepositoryName::new"
  /\ Len(call.name) = 100
  /\ call.result.tag = "Ok"
  /\ obj[1].kind = "RepositoryName"

(***************************************************************************)
(* C21: for any interleaving of hash_bytes, hash_str, hash_file and verify *)
(* calls made by several threads on independent inputs, through one shared *)
(* Hasher or several, each call returns the same result as the same call   *)
(* made alone; no call reads or writes state shared with another call: the *)
(* Hashers stay as built and every step changes the locals of one call     *)
(* only.                                                                   *)
(***************************************************************************)
Alone(c) ==
  CASE c.op = "hash_bytes" -> <<hash_bytes(c.data)>>
    [] c.op = "hash_str"   -> <<hash_str(c.data)>>
    [] c.op = "hash_file"  -> <<[tag |-> "Ok", value |-> hash_bytes(c.data)]>>
    [] c.op = "verify"     -> <<verify(c.data, c.expected)>>

C21_ResultsAsAlone ==
  /\ \A t \in Threads : call[t].pc = "done" => call[t].result = Alone(call[t])
  /\ \A i \in 1..2 : obj[i] = Hasher_new

C21_OneCallPerStep ==
  \E t \in Threads : \A u \in Threads \ {t} : call'[u] = call[u]

C21_ThreadsIndependent ==
  /\ []C21_ResultsAsAlone
  /\ [][C21_OneCallPerStep /\ obj' = obj]_vars

\* both calls went through one Hasher, each with steps of the other inside
\* it, and both have returned
C21_Witness ==
  /\ \A t \in Threads : call[t].pc = "done" /\ last[t]
  /\ call[1].via = call[2].via
  /\ call[1].op = "hash_file" /\ call[2].op = "verify"
  /\ Len(call[1].data) = 2 /\ Len(call[2].data) = 2
  /\ call[2].result = <<TRUE>>

(***************************************************************************)
(* C22: the digest of the empty byte sequence equals                       *)
(* e3b0c44298fc1c149afbf4c8996fb92427ae41e4649b934ca495991b7852b85, and    *)
(* the digest of the bytes "hello world" equals                            *)
(* b94d27b9934d3e08a52e52d7da7dabfac484efe37a5380ee9088f7ace2efcde (texts  *)
(* of 63 characters).                                                      *)
(***************************************************************************)
\* the digests the tests of hash.rs expect of "" and of "hello world"
VECTOR_empty ==
  <<101, 51, 98, 48, 99, 52, 52, 50, 57, 56, 102, 99, 49, 99, 49, 52,
    57, 97, 102, 98, 102, 52, 99, 56, 57, 57, 54, 102, 98, 57, 50, 52,
    50, 55, 97, 101, 52, 49, 101, 52, 54, 52, 57, 98, 57, 51, 52, 99,
    97, 52, 57, 53, 57, 57, 49, 98, 55, 56, 53, 50, 98, 56, 53, 53>>

VECTOR_hello_world ==
  <<98, 57, 52, 100, 50, 55, 98, 57, 57, 51, 52, 100, 51, 101, 48, 56,
    97, 53, 50, 101, 53, 50, 100, 55, 100, 97, 55, 100, 97, 98, 102, 97,
    99, 52, 56, 52, 101, 102, 101, 51, 55, 97, 53, 51, 56, 48, 101, 101,
    57, 48, 56, 56, 102, 55, 97, 99, 101, 50, 101, 102, 99, 100, 101, 57>>

STR_hello_world == <<104, 101, 108, 108, 111, 32, 119, 111, 114, 108, 100>>

C22_KnownVectors ==
  call.pc = "done"
  => /\ call.data = <<>>
        => call.result[1] =
             <<101, 51, 98, 48, 99, 52, 52, 50, 57, 56, 102, 99, 49, 99, 49, 52,
               57, 97, 102, 98, 102, 52, 99, 56, 57, 57, 54, 102, 98, 57, 50, 52,
               50, 55, 97, 101, 52, 49, 101, 52, 54, 52, 57, 98, 57, 51, 52, 99,
               97, 52, 57, 53, 57, 57, 49, 98, 55, 56, 53, 50, 98, 56, 53>>
     /\ call.data = STR_hello_world
        => call.result[1] =
             <<98, 57, 52, 100, 50, 55, 98, 57, 57, 51, 52, 100, 51, 101, 48, 56,
               97, 53, 50, 101, 53, 50, 100, 55, 100, 97, 55, 100, 97, 98, 102, 97,
               99, 52, 56, 52, 101, 102, 101, 51, 55, 97, 53, 51, 56, 48, 101, 101,
               57, 48, 56, 56, 102, 55, 97, 99, 101, 50, 101, 102, 99, 100, 101>>

(***************************************************************************)
(* C22, amended: the digest of the empty byte sequence equals              *)
(* e3b0c44298fc1c149afbf4c8996fb92427ae41e4649b934ca495991b7852b855, the   *)
(* digest of the bytes "hello world" equals                                *)
(* b94d27b9934d3e08a52e52d7da7dabfac484efe37a5380ee9088f7ace2efcde9, and   *)
(* every digest is a text of 64 characters.                                *)
(***************************************************************************)
C22_KnownVectorsFull ==
  call.pc = "done"
  => /\ Len(call.result[1]) = HASH_HEX_LENGTH
     /\ call.data = <<>> => call.result[1] = VECTOR_empty
     /\ call.data = STR_hello_world => call.result[1] = VECTOR_hello_world

\* the digest of "hello world" has been computed
C22_Witness ==
  /\ call.pc = "done"
  /\ call.data = STR_hello_world
  /\ call.t = 64
  /\ call.result # None

(***************************************************************************)
(* C23: for every list es of entries, Tree::with_entries(es) and           *)
(* Tree::new() followed by add_entry of each element of es in list order   *)
(* have the same entries() sequence, also when names are shared, and the   *)
(* same hash().                                                            *)
(***************************************************************************)
C23_BuiltAlike ==
  last.n = Len(last.es)
  => /\ Tree_entries(obj[1]) = Tree_entries(obj[2])
     /\ (obj[1].hash # None /\ obj[2].hash # None) => obj[1].hash = obj[2].hash

\* a list out of name order with a shared name, built both ways and hashed
C23_Witness ==
  /\ last.n = Len(last.es)
  /\ Len(last.es) = MaxEntries
  /\ \E j, k \in 1..Len(last.es) :
       j < k /\ last.es[j].name = last.es[k].name /\ last.es[j] # last.es[k]
  /\ ~SortedByName(last.es)
  /\ obj[1].hash # None
  /\ obj[2].hash # None

(***************************************************************************)
(* C24: add_entry(e) is a pure insertion: len() grows by exactly one,      *)
(* every entry present before is kept, entries of equal name stay in       *)
(* insertion order, and find(name) returns the earliest-inserted entry of  *)
(* that name, and None exactly when no entry has it.                       *)
(***************************************************************************)
WithName(entries, name) == SelectSeq(entries, LAMBDA e : e.name = name)

C24_AddStep ==
  last'.n = last.n + 1
  => LET e == last.es[last.n + 1]
     IN  /\ Tree_len(obj'[2]) = Tree_len(obj[2]) + 1
         /\ \A x \in EntryInputs :
              Count(obj'[2].entries, x)
                = Count(obj[2].entries, x) + (IF x = e THEN 1 ELSE 0)
         /\ \A name \in FindNames :
              WithName(obj'[2].entries, name)
                = WithName(obj[2].entries, name)
                  \o (IF e.name = name THEN <<e>> ELSE <<>>)

C24_FindEarliest ==
  last.find # None
  => LET name  == last.find[1].name
         given == WithName(SubSeq(last.es, 1, last.n), name)
     IN  /\ last.find[1].ret = None <=> given = <<>>
         /\ given # <<>> => last.find[1].ret = Some(given[1])

C24_PureInsertion == [][C24_AddStep]_vars /\ []C24_FindEarliest

\* find of a name given twice, with different entries, the later one last
C24_Witness ==
  /\ last.find # None
  /\ last.n = MaxEntries
  /\ Len(WithName(SubSeq(last.es, 1, last.n), last.find[1].name)) >= 2
  /\ last.es[last.n].name = last.find[1].name
  /\ last.find[1].ret # Some(last.es[last.n])

(***************************************************************************)
(* C25: a Commit built with parent None and a Commit built with parent     *)
(* Some("") whose other fields are equal have the same canonical encoding  *)
(* and the same hash(), although is_initial() is true for the first and    *)
(* false for the second.                                                   *)
(***************************************************************************)
C25_SameButParent ==
  /\ obj[1].kind = "Commit"
  /\ obj[2].kind = "Commit"
  /\ obj[1].parent_hash = None
  /\ obj[2].parent_hash = Some(<<>>)
  /\ [obj[1] EXCEPT !.parent_hash = None, !.hash = None]
       = [obj[2] EXCEPT !.parent_hash = None, !.hash = None]

C25_EmptyParentCollides ==
  C25_SameButParent
  => /\ Commit_full_data(obj[1]) = Commit_full_data(obj[2])
     /\ (obj[1].hash # None /\ obj[2].hash # None) => obj[1].hash = obj[2].hash
     /\ Commit_is_initial(obj[1])
     /\ ~Commit_is_initial(obj[2])

C25_Witness ==
  /\ C25_SameButParent
  /\ obj[1].hash # None
  /\ obj[2].hash # None

(***************************************************************************)
(* C26: Tree::hash() depends only on the mode, name and hash of each entry *)
(* in sorted order: two Trees whose entries differ only in object_type     *)
(* have the same digest.                                                   *)
(***************************************************************************)
Untyped(entries) ==
  [j \in 1..Len(entries) |->
     [mode |-> entries[j].mode, name |-> entries[j].name, hash |-> entries[j].hash]]

C26_TypeIgnored ==
  (/\ Untyped(obj[1].entries) = Untyped(obj[2].entries)
   /\ obj[1].hash # None
   /\ obj[2].hash # None)
  => obj[1].hash = obj[2].hash

\* two hashed Trees of equal lines whose entries differ in object_type
C26_Witness ==
  /\ Len(obj[1].entries) = MaxEntries
  /\ Untyped(obj[1].entries) = Untyped(obj[2].entries)
  /\ \E j \in 1..Len(obj[1].entries) :
       obj[1].entries[j].object_type # obj[2].entries[j].object_type
  /\ obj[1].hash # None
  /\ obj[2].hash # None

====
